---- MODULE Spec2Model ----
(***************************************************************************)
(* State synchronisation core of the C-Bus / MQTT bridge.                  *)
(*                                                                         *)
(* The model follows src/cbus/state_manager.py (DeviceState, StateManager) *)
(* together with the two loops of src/cbus/interface.py that feed it (the  *)
(* monitoring loop and the command loop).  All tasks run on one asyncio    *)
(* event loop: a task runs until it really suspends, so every action below *)
(* is one run of a task from one suspension point to the next.  The points *)
(* at which a task suspends are: asyncio.Lock.acquire when the lock is     *)
(* held or has waiters, the MQTT publish, the transport read and write,    *)
(* and the sleeps of the periodic loops.  Queue.put on the unbounded       *)
(* command queue and an uncontended Lock.acquire do not suspend.           *)
(***************************************************************************)
EXTENDS Integers, Sequences, FiniteSets, TLC

\* ---------------------------------------------------------------- bounds
MaxGroup == 2
MaxLevel == 2
MaxTime  == 1
MaxCmds  == 1
MaxRx    == 1
MaxReports == 2
MaxSim   == 1
MaxReads == 1
\* hub commands in the conflict scenario
MaxScenarioCmds == 2

Groups == 1..MaxGroup
Levels == 0..MaxLevel
\* groups declared in the static device configuration
ConfiguredGroups == {1}

\* cbus.application of the configuration
Application == 56
\* the largest value of one byte on the wire
MaxByte == 255
\* config.get_poll_interval(): seconds between two poll ticks
PollInterval == 30
\* seconds between two cleanup ticks
CleanupSleep == 300
\* seconds the poll loop waits after an error
PollErrorSleep == 5
\* age in seconds beyond which the cleanup evicts an entry
MaxStateAge == 3600
\* steps of the clock of the periodic loops
MaxTicks == 3
\* poll intervals that pass while devices are discovered
ProbeTicks == 1
\* transport and query failures in one run
MaxFaults == 1
\* calls of ping in one run
MaxPings == 1
\* steps of the clock while the loops raise
FaultTicks == 2
\* status messages of the heartbeat loop in one run
MaxBeats == 1

\* the loops with an except branch that sleeps and goes on: _monitoring_loop,
\* _message_listener, _poll_loop, _sync_loop, _cleanup_loop
Loops == {"mon", "hub", "poll", "sync", "cleanup"}
\* seconds the cleanup loop waits after an error
CleanupErrorSleep == 60
\* lines the transport holds unread, and lines it delivers in all
MaxPending == 2
MaxLines == 3

\* no DeviceManager function has been called
NoCall == [op |-> "none"]

\* Config.data before load
NoConfig == [loaded |-> FALSE]

\* the transport handle of a connected interface / of a disconnected one
Open   == "open"
Closed == "None"

\* StateSource
CBUS    == "cbus"
MQTT    == "mqtt"
POLL    == "poll"
UNKNOWN == "unknown"

VARIABLES
    now,             \* time.time()
    device_states,   \* StateManager.device_states : group -> DeviceState
    state_lock,      \* StateManager.state_lock (asyncio.Lock)
    sync_conflicts,  \* StateManager.sync_conflicts
    command_queue,   \* CBusInterface.command_queue
    rx,              \* lines the bus has delivered, not yet read
    rx_count,        \* number of lines the bus has delivered so far
    mon_pc, mon_event,          \* _monitoring_loop
    hub_pc, hub_cmd, hub_count, \* message listener in handle_mqtt_command
    sync_pc, sync_remaining, sync_pre, sync_pubs, \* _check_sync_conflicts
    reader_pc, reader_req, reader_ret,            \* get_device_state / get_all_states
    reader_count,    \* number of reader calls that have returned
    sim_count,       \* number of simulated lingering flags (test harness)
    lastOp,          \* history: the operation the last step completed
    last_update,     \* history: result of the last completed update per group
    hub_id, written_id, applied, \* history: hub command / bus report order
    ticks,           \* number of steps of the clock of the periodic loops
    poll_pc, poll_wake, poll_pos, poll_used, \* _poll_loop / _poll_devices
    last_poll_time,  \* StateManager.last_poll_time
    poll_errors,     \* StateManager.poll_errors
    poll_log,        \* history: the last poll tick and what it enqueued
    cleanup_pc, cleanup_wake, \* _cleanup_loop
    codec,           \* history: the last line decoded or command encoded
    mqtt_connected,  \* MQTTBridge.connected
    mqtt_pc, mqtt_todo, \* MQTTBridge.start and its _send_discovery_messages
    published,       \* history: the messages handed to client.publish
    discovered_devices, \* DeviceManager.discovered_devices (its groups)
    pub_pc, pub_group,  \* publish_state_update called by the monitoring loop
    dm_queue,        \* command_queue of the interface of the DeviceManager
    connected,       \* CBusInterface.connected
    connection,      \* CBusInterface.connection (the transport handle)
    wire,            \* history: the lines written to the transport
    cmd_pc,          \* _command_loop
    cmd_taken,       \* history: number of commands taken from the queue
    dropped,         \* history: the commands whose write has failed
    faults,          \* number of failed writes so far
    pings,           \* number of calls of ping
    query_failed,    \* history: the groups whose poll query has failed
    raised,          \* history: the exceptions raised inside each loop
    dm_call,         \* history: the last call of a DeviceManager function
    stop_pc,         \* CBusMQTTBridge.stop
    cancelled,       \* the tasks whose cancel() has been called
    ended,           \* the cancelled tasks that have received CancelledError
    boot_pc,         \* CBusMQTTBridge.run: initialize, then start
    config_data,     \* Config.data after load
    attempts,        \* history: the connection attempts made so far
    conn_pc,         \* CBusInterface.connect
    init_pos,        \* the initialisation commands connect has written
    conn_last,       \* history: how the last call of connect ended
    ha_call,         \* history: the last call of CBusLight.async_turn_on
    delivered,       \* history: the lines the transport has delivered
    consumed         \* history: the bus events applied to the state store

vars == <<now, device_states, state_lock, sync_conflicts, command_queue, rx, rx_count,
          mon_pc, mon_event, hub_pc, hub_cmd, hub_count,
          sync_pc, sync_remaining, sync_pre, sync_pubs,
          reader_pc, reader_req, reader_ret, reader_count, sim_count,
          lastOp, last_update, hub_id, written_id, applied,
          ticks, poll_pc, poll_wake, poll_pos, poll_used, last_poll_time,
          poll_errors, poll_log, cleanup_pc, cleanup_wake, codec,
          mqtt_connected, mqtt_pc, mqtt_todo, published, discovered_devices,
          pub_pc, pub_group, dm_queue,
          connected, connection, wire, cmd_pc, cmd_taken, dropped, faults,
          pings, query_failed, raised, dm_call, stop_pc, cancelled, ended,
          boot_pc, config_data, attempts, conn_pc, init_pos, conn_last,
          ha_call, delivered, consumed>>

monVars    == <<mon_pc, mon_event>>
hubVars    == <<hub_pc, hub_cmd, hub_count>>
syncVars   == <<sync_pc, sync_remaining, sync_pre, sync_pubs>>
readerVars == <<reader_pc, reader_req, reader_ret, reader_count>>
orderVars  == <<hub_id, written_id, applied>>
pollVars   == <<poll_pc, poll_wake, poll_pos, poll_used, last_poll_time,
                poll_errors, poll_log>>
cleanVars  == <<cleanup_pc, cleanup_wake>>
loopVars   == <<ticks, pollVars, cleanVars>>
mqttVars   == <<mqtt_connected, mqtt_pc, mqtt_todo, published, discovered_devices,
                pub_pc, pub_group, dm_queue>>
ifVars     == <<connected, connection, wire, cmd_pc, cmd_taken, dropped>>
faultVars  == <<faults, pings, query_failed, raised, dm_call>>
stopVars   == <<stop_pc, cancelled, ended>>
bootVars   == <<boot_pc, config_data, attempts, conn_pc, init_pos, conn_last>>
histVars   == <<ha_call, delivered, consumed>>
restVars   == <<ifVars, faultVars, stopVars, bootVars, histVars>>
sysVars    == <<mqttVars, restVars>>

\* ---------------------------------------------------------- DeviceState
\* the empty table / the empty mapping
Empty == [g \in {} |-> 0]

\* a new entry whose level equals no reported level
NewDeviceStateNoLevel(group, t) ==
    [group |-> group, level |-> -1, state |-> FALSE,
     last_updated |-> t, last_source |-> UNKNOWN,
     last_mqtt_update |-> 0, last_cbus_update |-> 0,
     pending_mqtt_update |-> FALSE, pending_cbus_update |-> FALSE]

\* DeviceState(group=group, level=0, state=False) with the dataclass defaults
NewDeviceState(group, t) ==
    [group |-> group, level |-> 0, state |-> FALSE,
     last_updated |-> t, last_source |-> UNKNOWN,
     last_mqtt_update |-> 0, last_cbus_update |-> 0,
     pending_mqtt_update |-> FALSE, pending_cbus_update |-> FALSE]

\* placeholder for "no entry" in history records
NoEntry == NewDeviceState(0, 0)

\* update() that forgets to recompute the on/off value
DeviceStateUpdateStaleState(ds, level, source, t) ==
    LET base == [ds EXCEPT !.level = level,
                           !.last_updated = t, !.last_source = source]
    IN  IF source = CBUS
          THEN [base EXCEPT !.last_cbus_update = t, !.pending_cbus_update = FALSE]
        ELSE IF source = MQTT
          THEN [base EXCEPT !.last_mqtt_update = t, !.pending_mqtt_update = FALSE]
        ELSE base

\* update() whose bus branch leaves pending_cbus_update alone
DeviceStateUpdateKeepPending(ds, level, source, t) ==
    LET base == [ds EXCEPT !.level = level, !.state = (level > 0),
                           !.last_updated = t, !.last_source = source]
    IN  IF source = CBUS
          THEN [base EXCEPT !.last_cbus_update = t]
        ELSE IF source = MQTT
          THEN [base EXCEPT !.last_mqtt_update = t, !.pending_mqtt_update = FALSE]
        ELSE base

DeviceStateUpdate(ds, level, source, t) ==
    LET base == [ds EXCEPT !.level = level, !.state = (level > 0),
                           !.last_updated = t, !.last_source = source]
    IN  IF source = CBUS
          THEN [base EXCEPT !.last_cbus_update = t, !.pending_cbus_update = FALSE]
        ELSE IF source = MQTT
          THEN [base EXCEPT !.last_mqtt_update = t, !.pending_mqtt_update = FALSE]
        ELSE base

\* get-or-create of _update_device_state
GetOrCreate(table, group, t) ==
    IF group \in DOMAIN table THEN table
    ELSE [g \in DOMAIN table \cup {group} |->
             IF g = group THEN NewDeviceState(group, t) ELSE table[g]]

\* the table after _update_device_state(group, level, source)
UpdateTable(table, group, level, source, t) ==
    LET t1 == GetOrCreate(table, group, t)
    IN  [t1 EXCEPT ![group] = DeviceStateUpdate(t1[group], level, source, t)]

\* a change test that compares only the on/off value
StateChangedOnOffOnly(old, level, newEntry) ==
    old.state # newEntry.state

\* "Check if state actually changed" of _update_device_state
StateChanged(old, level, newEntry) ==
    old.level # level \/ old.state # newEntry.state

\* a mark that also sets pending_mqtt_update
MarkPendingBoth(table, group) ==
    IF group \in DOMAIN table
      THEN [table EXCEPT ![group].pending_cbus_update = TRUE,
                         ![group].pending_mqtt_update = TRUE]
      ELSE table

\* a notification for every change, whatever its source
NotifiesAnySource(source, changed) == changed

\* _update_device_state awaits publish_state_update for a change whose
\* source is the bus
Notifies(source, changed) == changed /\ source = CBUS

\* first critical section of handle_mqtt_command: mark as pending update
MarkPending(table, group) ==
    IF group \in DOMAIN table
      THEN [table EXCEPT ![group].pending_cbus_update = TRUE]
      ELSE table

\* ------------------------------------------------------- asyncio.Lock
\* acquire() takes the lock at once iff it is free and nobody is waiting
FastPath == ~state_lock.locked /\ state_lock.waiters = <<>>

\* otherwise the caller appends a future to _waiters and suspends
Enqueue(task) == [state_lock EXCEPT !.waiters = Append(@, task)]

\* release() wakes the first waiter; it takes the lock when it next runs
Granted(task) ==
    /\ ~state_lock.locked
    /\ state_lock.waiters # <<>>
    /\ Head(state_lock.waiters) = task

\* the waiters left once the running task has its future removed
Rest(viaWait) == IF viaWait THEN Tail(state_lock.waiters) ELSE state_lock.waiters

Held(waiters)     == [locked |-> TRUE,  waiters |-> waiters]
Released(waiters) == [locked |-> FALSE, waiters |-> waiters]

\* ------------------------------------------------------------ history
\* the entry an operation found (level, on/off, source and flags)
Found(ds) == [level |-> ds.level, state |-> ds.state, last_source |-> ds.last_source,
              pending_mqtt_update |-> ds.pending_mqtt_update,
              pending_cbus_update |-> ds.pending_cbus_update]

Nop == [op |-> "none", group |-> 0, level |-> 0, pre |-> Found(NoEntry),
        tracked |-> FALSE, pub |-> FALSE, tag |-> 0, table |-> Empty,
        pubs |-> <<>>, conflicts |-> 0]

\* the fields a reader looks at, as one completed update leaves them
Proj(ds) == [level |-> ds.level, state |-> ds.state,
             last_source |-> ds.last_source, last_updated |-> ds.last_updated,
             last_cbus_update |-> ds.last_cbus_update,
             last_mqtt_update |-> ds.last_mqtt_update]

\* what one update(level, source) at time t is to leave in those fields
Committed(prev, level, source, t) ==
    [level |-> level, state |-> (level > 0),
     last_source |-> source, last_updated |-> t,
     last_cbus_update |-> IF source = CBUS THEN t ELSE prev.last_cbus_update,
     last_mqtt_update |-> IF source = MQTT THEN t ELSE prev.last_mqtt_update]

RecordUpdate(group, level, source, t) ==
    LET prev == IF group \in DOMAIN last_update THEN last_update[group]
                ELSE Proj(NewDeviceState(group, t))
    IN  [g \in DOMAIN last_update \cup {group} |->
            IF g = group THEN Committed(prev, level, source, t) ELSE last_update[g]]

\* no poll tick has run yet
NoTick == [at |-> 0, table |-> Empty, polled |-> FALSE, sent |-> <<>>,
           done |-> FALSE, failed |-> FALSE]

\* locals of a task that is not inside the call
NoRun     == [table |-> Empty, conflicts |-> 0]
NoEvent   == [group |-> 0, level |-> 0, tag |-> 0]
NoCommand == [group |-> 0, level |-> 0]

PreOf(group) ==
    IF group \in DOMAIN device_states THEN Found(device_states[group])
    ELSE Found(NoEntry)

\* ------------------------------------------------------------- the codec
\* text is a sequence of one-character strings
HexUpper == <<"0", "1", "2", "3", "4", "5", "6", "7", "8", "9",
              "A", "B", "C", "D", "E", "F">>
HexLower == <<"0", "1", "2", "3", "4", "5", "6", "7", "8", "9",
              "a", "b", "c", "d", "e", "f">>

\* the value of a digit character, -1 when it is none
DigitValue(c) ==
    IF \E i \in 1..16 : HexUpper[i] = c
      THEN (CHOOSE i \in 1..16 : HexUpper[i] = c) - 1
    ELSE IF \E i \in 1..16 : HexLower[i] = c
      THEN (CHOOSE i \in 1..16 : HexLower[i] = c) - 1
    ELSE -1

IsSpace(c) == c \in {" ", "\t"}

RECURSIVE StripLeft(_)
StripLeft(s) ==
    IF s # <<>> /\ IsSpace(Head(s)) THEN StripLeft(Tail(s)) ELSE s

RECURSIVE StripRight(_)
StripRight(s) ==
    IF s # <<>> /\ IsSpace(s[Len(s)]) THEN StripRight(SubSeq(s, 1, Len(s) - 1)) ELSE s

\* str.strip()
Strip(s) == StripRight(StripLeft(s))

RECURSIVE DigitsValue(_, _, _)
DigitsValue(s, base, acc) ==
    IF s = <<>> THEN acc
    ELSE DigitsValue(Tail(s), base, acc * base + DigitValue(Head(s)))

\* int(s, base) for the slices the decoder passes (two characters, so no
\* "0x" prefix and no "_" separator can be part of a valid literal): white
\* space around the literal and one sign before the digits are accepted
ParseInt(s, base) ==
    LET t      == Strip(s)
        signed == t # <<>> /\ Head(t) \in {"+", "-"}
        digits == IF signed THEN Tail(t) ELSE t
        valid  == /\ digits # <<>>
                  /\ \A i \in 1..Len(digits) : DigitValue(digits[i]) \in 0..(base - 1)
        value  == DigitsValue(digits, base, 0)
    IN  IF ~valid THEN [ok |-> FALSE, value |-> 0]
        ELSE IF signed /\ Head(t) = "-" THEN [ok |-> TRUE, value |-> 0 - value]
        ELSE [ok |-> TRUE, value |-> value]

\* a decoder that reads the bytes as decimal numbers
IntBase10(s) == ParseInt(s, 10)

\* int(x, 16)
IntBase16(s) == ParseInt(s, 16)

\* _process_group_response: the events delivered to the callbacks
ProcessGroupResponse(response) ==
    IF Len(response) >= 7
      THEN LET application == IntBase16(SubSeq(response, 2, 3))
               group       == IntBase16(SubSeq(response, 4, 5))
               level       == IntBase16(SubSeq(response, 6, 7))
           IN  IF /\ application.ok /\ group.ok /\ level.ok
                  /\ application.value = Application
                 THEN << [type |-> "group_state", application |-> application.value,
                          group |-> group.value, level |-> level.value,
                          state |-> (level.value > 0)] >>
                 ELSE <<>>
      ELSE <<>>

\* _process_response, for a non-empty line
ProcessResponse(response) ==
    IF Head(response) = "\\" THEN <<>>
    ELSE IF Head(response) = "@" THEN <<>>
    ELSE IF Head(response) = "g" THEN ProcessGroupResponse(response)
    ELSE <<>>

RECURSIVE HexDigitsOf(_)
HexDigitsOf(n) ==
    IF n < 16 THEN <<HexUpper[n + 1]>>
    ELSE Append(HexDigitsOf(n \div 16), HexUpper[(n % 16) + 1])

\* a format without the zero padding
FormatX(n) ==
    IF n >= 0 THEN HexDigitsOf(n) ELSE <<"-">> \o HexDigitsOf(0 - n)

\* format(n, "02X")
Format02X(n) ==
    IF n >= 0
      THEN IF n < 16 THEN <<"0">> \o HexDigitsOf(n) ELSE HexDigitsOf(n)
      ELSE <<"-">> \o HexDigitsOf(0 - n)

\* the group-state line "gAAGGLL" of the wire protocol
GroupStateLine(application, group, level) ==
    <<"g">> \o Format02X(application) \o Format02X(group) \o Format02X(level)

\* the command text of set_group_level
SetGroupLevelText(application, group, level) ==
    <<"@">> \o Format02X(application) \o Format02X(group) \o Format02X(level)

\* the command text of ramp_group
RampGroupText(application, group, level, ramp_time) ==
    IF ramp_time > 0
      THEN <<"@">> \o Format02X(application) \o Format02X(group)
                  \o Format02X(level) \o Format02X(ramp_time)
      ELSE <<"@">> \o Format02X(application) \o Format02X(group) \o Format02X(level)

NoCodec == [op |-> "none", text |-> <<>>, events |-> <<>>, args |-> <<>>]

\* ----------------------------------------------------------------- Init
\* the state after construction, initialize() and set_mqtt_bridge()
Constructed ==
    /\ now = 0
    /\ device_states = [g \in ConfiguredGroups |-> NewDeviceState(g, 0)]
    /\ state_lock = Released(<<>>)
    /\ sync_conflicts = 0
    /\ command_queue = <<>>
    /\ rx = <<>> /\ rx_count = 0
    /\ mon_pc = "read" /\ mon_event = NoEvent
    /\ hub_pc = "idle" /\ hub_cmd = NoCommand /\ hub_count = 0
    /\ sync_pc = "idle" /\ sync_remaining = {} /\ sync_pre = NoRun /\ sync_pubs = <<>>
    /\ reader_pc = "idle" /\ reader_req = 0
    /\ reader_ret = [keys |-> {}, seen |-> Empty]
    /\ reader_count = 0
    /\ sim_count = 0
    /\ lastOp = Nop
    /\ last_update = [g \in ConfiguredGroups |-> Proj(NewDeviceState(g, 0))]
    /\ hub_id = [g \in Groups |-> 0]
    /\ written_id = [g \in Groups |-> 0]
    /\ applied = [g \in Groups |-> [tag |-> 0, level |-> 0]]
    /\ ticks = 0
    /\ poll_pc = "sleep" /\ poll_wake = PollInterval
    /\ poll_pos = 0 /\ poll_used = 0
    /\ last_poll_time = 0 /\ poll_errors = 0
    /\ poll_log = NoTick
    /\ cleanup_pc = "sleep" /\ cleanup_wake = CleanupSleep
    /\ codec = NoCodec
    /\ mqtt_connected = FALSE
    /\ mqtt_pc = "connect" /\ mqtt_todo = <<>>
    /\ published = <<>>
    /\ discovered_devices = {}
    /\ pub_pc = "idle" /\ pub_group = 0
    /\ dm_queue = <<>>
    /\ wire = <<>>
    /\ cmd_pc = "get" /\ cmd_taken = 0
    /\ dropped = <<>>
    /\ faults = 0 /\ pings = 0
    /\ query_failed = <<>>
    /\ raised = [t \in Loops |-> 0]
    /\ dm_call = NoCall
    /\ stop_pc = "running"
    /\ cancelled = {} /\ ended = {}
    /\ config_data = NoConfig
    /\ attempts = <<>>
    /\ conn_pc = "idle" /\ init_pos = 0 /\ conn_last = "none"
    /\ ha_call = NoCall
    /\ delivered = <<>> /\ consumed = <<>>

\* the bridge after cbus_interface.start() has returned
Init ==
    /\ Constructed
    /\ connected = TRUE /\ connection = Open
    /\ boot_pc = "started"

\* the bridge after CBusMQTTBridge.__init__
InitBoot ==
    /\ Constructed
    /\ connected = FALSE /\ connection = Closed
    /\ boot_pc = "new"

\* time passes
Tick ==
    /\ now < MaxTime
    /\ now' = now + 1
    /\ lastOp' = Nop
    /\ UNCHANGED <<device_states, state_lock, sync_conflicts, command_queue, rx,
                   monVars, hubVars, syncVars, readerVars, sim_count,
                   last_update, rx_count>>


\* ------------------------------------------------------------ the bus
\* the bus reports a group level (a wall switch, or the echo of a command);
\* the line waits in the transport's receive buffer.  tag: the newest hub
\* command for that group that had been written to the bus at that moment
BusReport(g, l) ==
    /\ Len(rx) < MaxRx
    /\ rx_count < MaxReports
    /\ rx_count' = rx_count + 1
    /\ rx' = Append(rx, [group |-> g, level |-> l, tag |-> written_id[g]])
    /\ lastOp' = Nop
    /\ UNCHANGED <<now, device_states, state_lock, sync_conflicts, command_queue,
                   monVars, hubVars, syncVars, readerVars, sim_count,
                   last_update>>

\* the transport delivers the next group_state line of our application; its
\* tag is its number
BusLine(g, l) ==
    /\ Len(rx) < MaxPending
    /\ rx_count < MaxLines
    /\ rx_count' = rx_count + 1
    /\ rx' = Append(rx, [group |-> g, level |-> l, tag |-> rx_count + 1])
    /\ lastOp' = Nop
    /\ UNCHANGED <<now, device_states, state_lock, sync_conflicts, command_queue,
                   monVars, hubVars, syncVars, readerVars, sim_count,
                   last_update>>

\* --------------------------------------- _monitoring_loop / _on_cbus_event
\* _update_device_state(group, level, CBUS) from the point the lock is taken
\* up to the await of publish_state_update (or to the end when unchanged)
ApplyBusEvent(ev, viaWait) ==
    LET g       == ev.group
        old     == GetOrCreate(device_states, g, now)[g]
        table   == UpdateTable(device_states, g, ev.level, CBUS, now)
        changed == Notifies(CBUS, StateChanged(old, ev.level, table[g]))
    IN  /\ device_states' = table
        /\ last_update' = RecordUpdate(g, ev.level, CBUS, now)
        /\ lastOp' = [Nop EXCEPT !.op = "bus", !.group = g, !.level = ev.level,
                                 !.pre = PreOf(g), !.tag = ev.tag,
                                 !.tracked = (g \in DOMAIN device_states),
                                 !.pub = changed]
        /\ IF changed
             THEN /\ state_lock' = Held(Rest(viaWait))
                  /\ mon_pc' = "pub"
             ELSE /\ state_lock' = Released(Rest(viaWait))
                  /\ mon_pc' = "read"

\* a readline that returns the line delivered last
ReadNewestLine(lines) == lines[Len(lines)]

\* readline of the StreamReader: the oldest line that has not been read
ReadOldestLine(lines) == Head(lines)

\* _read_response returns a group_state line of our application
MonRead ==
    /\ mon_pc = "read"
    /\ rx # <<>>
    /\ rx' = Tail(rx)
    /\ IF FastPath
         THEN /\ ApplyBusEvent(ReadOldestLine(rx), FALSE)
              /\ mon_event' = NoEvent
         ELSE /\ state_lock' = Enqueue("mon")
              /\ mon_pc' = "wait"
              /\ mon_event' = ReadOldestLine(rx)
              /\ lastOp' = Nop
              /\ UNCHANGED <<device_states, last_update>>
    /\ UNCHANGED <<now, sync_conflicts, command_queue, hubVars, syncVars,
                   readerVars, sim_count, rx_count>>

\* the monitoring loop is woken holding its turn for the lock
MonGranted ==
    /\ mon_pc = "wait"
    /\ Granted("mon")
    /\ ApplyBusEvent(mon_event, TRUE)
    /\ mon_event' = NoEvent
    /\ UNCHANGED <<now, sync_conflicts, command_queue, rx, hubVars,
                   syncVars, readerVars, sim_count, rx_count>>

\* publish_state_update returns; the lock is released
MonPublishDone ==
    /\ mon_pc = "pub"
    /\ state_lock' = Released(state_lock.waiters)
    /\ mon_pc' = "read"
    /\ lastOp' = Nop
    /\ UNCHANGED <<now, device_states, sync_conflicts, command_queue, rx,
                   mon_event, hubVars, syncVars, readerVars, sim_count,
                   last_update, rx_count>>

\* ------------------------------------------------------ _command_loop
\* one queued command is written to the transport
CommandLoop ==
    /\ command_queue # <<>>
    /\ command_queue' = Tail(command_queue)
    /\ lastOp' = Nop
    /\ UNCHANGED <<now, device_states, state_lock, sync_conflicts, rx,
                   monVars, hubVars, syncVars, readerVars, sim_count,
                   last_update, rx_count>>

\* ------------------------------------------------- handle_mqtt_command
\* set_group_level: "@AAGGLL" is put on the command queue
SetGroupLevel(g, l, id) == [kind |-> "set", group |-> g, level |-> l, id |-> id]

\* second critical section: _update_device_state(group, level, MQTT)
HubUpdate(table, g, l, waiters) ==
    LET old     == GetOrCreate(table, g, now)[g]
        updated == UpdateTable(table, g, l, MQTT, now)
        notify  == Notifies(MQTT, StateChanged(old, l, updated[g]))
    IN  /\ device_states' = updated
        /\ last_update' = RecordUpdate(g, l, MQTT, now)
        /\ state_lock' = IF notify THEN Held(waiters) ELSE Released(waiters)
        /\ hub_pc' = IF notify THEN "pub" ELSE "idle"
        /\ hub_cmd' = NoCommand
        /\ lastOp' = [Nop EXCEPT !.op = "hub", !.group = g, !.level = l,
                                 !.pre = PreOf(g),
                                 !.tracked = (g \in DOMAIN device_states),
                                 !.pub = notify]

\* first critical section, entered with the lock; the second acquire
\* suspends iff another task is waiting for the lock
HubMark(g, l, viaWait) ==
    IF Rest(viaWait) = <<>>
      THEN HubUpdate(MarkPending(device_states, g), g, l, <<>>)
      ELSE /\ device_states' = MarkPending(device_states, g)
           /\ state_lock' = Released(Append(Rest(viaWait), "hub"))
           /\ hub_pc' = "waitB"
           /\ hub_cmd' = [group |-> g, level |-> l]
           /\ lastOp' = [Nop EXCEPT !.op = "mark", !.group = g, !.level = l]
           /\ UNCHANGED last_update

\* budget: the number of hub commands the run may issue
HubCommand(g, l, budget) ==
    /\ hub_pc = "idle"
    /\ hub_count < budget
    /\ hub_count' = hub_count + 1
    /\ command_queue' = Append(command_queue, SetGroupLevel(g, l, hub_count + 1))
    /\ IF FastPath
         THEN HubMark(g, l, FALSE)
         ELSE /\ state_lock' = Enqueue("hub")
              /\ hub_pc' = "waitA"
              /\ hub_cmd' = [group |-> g, level |-> l]
              /\ lastOp' = Nop
              /\ UNCHANGED <<device_states, last_update>>
    /\ UNCHANGED <<now, sync_conflicts, rx, monVars, syncVars, readerVars,
                   sim_count, rx_count>>

HandleMqttCommand(g, l) == HubCommand(g, l, MaxCmds)

HubGrantedMark ==
    /\ hub_pc = "waitA"
    /\ Granted("hub")
    /\ HubMark(hub_cmd.group, hub_cmd.level, TRUE)
    /\ UNCHANGED <<now, sync_conflicts, command_queue, rx, monVars,
                   hub_count, syncVars, readerVars, sim_count, rx_count>>

HubGrantedUpdate ==
    /\ hub_pc = "waitB"
    /\ Granted("hub")
    /\ HubUpdate(device_states, hub_cmd.group, hub_cmd.level, Tail(state_lock.waiters))
    /\ UNCHANGED <<now, sync_conflicts, command_queue, rx, monVars,
                   hub_count, syncVars, readerVars, sim_count, rx_count>>


\* ------------------------------------------------ _check_sync_conflicts
\* a conflict test that looks at pending_mqtt_update only
ConflictGroupsHubOnly(table, S) ==
    {g \in S : table[g].pending_mqtt_update}

ConflictGroups(table, S) ==
    {g \in S : table[g].pending_mqtt_update /\ table[g].pending_cbus_update}

Min(S) == CHOOSE x \in S : \A y \in S : x <= y

\* the loop over device_states.items(), run with the lock held from the
\* groups still to visit up to the next await of publish_state_update, or
\* to the end of the loop, where the lock is released
CheckSyncConflicts(remaining, pre, pubs, waiters) ==
    LET C == ConflictGroups(device_states, remaining)
    IN  IF C = {}
          THEN /\ state_lock' = Released(waiters)
               /\ sync_pc' = "idle"
               /\ sync_remaining' = {}
               /\ sync_pre' = NoRun
               /\ sync_pubs' = <<>>
               /\ lastOp' = [Nop EXCEPT !.op = "sync", !.table = pre.table,
                                        !.pubs = pubs, !.conflicts = pre.conflicts]
               /\ UNCHANGED <<device_states, sync_conflicts>>
          ELSE LET g == Min(C)
               IN  /\ device_states' = [device_states EXCEPT ![g].pending_mqtt_update = FALSE]
                   /\ sync_conflicts' = sync_conflicts + 1
                   /\ sync_pubs' = Append(pubs, [group |-> g,
                                                 level |-> device_states[g].level,
                                                 state |-> device_states[g].state])
                   /\ sync_remaining' = {x \in remaining : x > g}
                   /\ sync_pre' = pre
                   /\ state_lock' = Held(waiters)
                   /\ sync_pc' = "pub"
                   /\ lastOp' = Nop

\* history: the table and the counter a run of the check started from
StartOfRun == [table |-> device_states, conflicts |-> sync_conflicts]

\* one tick of _sync_loop
SyncTick ==
    /\ sync_pc = "idle"
    /\ IF FastPath
         THEN CheckSyncConflicts(DOMAIN device_states, StartOfRun, <<>>, <<>>)
         ELSE /\ state_lock' = Enqueue("sync")
              /\ sync_pc' = "wait"
              /\ lastOp' = Nop
              /\ UNCHANGED <<device_states, sync_conflicts, sync_remaining,
                             sync_pre, sync_pubs>>
    /\ UNCHANGED <<now, command_queue, rx, monVars, hubVars, readerVars,
                   sim_count, last_update, rx_count>>

SyncGranted ==
    /\ sync_pc = "wait"
    /\ Granted("sync")
    /\ CheckSyncConflicts(DOMAIN device_states, StartOfRun, <<>>,
                          Tail(state_lock.waiters))
    /\ UNCHANGED <<now, command_queue, rx, monVars, hubVars, readerVars,
                   sim_count, last_update, rx_count>>

\* publish_state_update returns inside the loop
SyncPublishDone ==
    /\ sync_pc = "pub"
    /\ CheckSyncConflicts(sync_remaining, sync_pre, sync_pubs, state_lock.waiters)
    /\ UNCHANGED <<now, command_queue, rx, monVars, hubVars, readerVars,
                   sim_count, last_update, rx_count>>

\* -------------------------------------- get_device_state / get_all_states
\* the caller gets the table's own DeviceState objects: get() returns the
\* stored object, copy() a new dict holding the same objects
ReturnStates(keys, waiters) ==
    /\ reader_ret' = [keys |-> keys, seen |-> [g \in keys |-> device_states[g]]]
    /\ reader_count' = reader_count + 1
    /\ state_lock' = Released(waiters)
    /\ reader_pc' = "idle"
    /\ reader_req' = 0
    /\ lastOp' = [Nop EXCEPT !.op = "get"]

\* what the caller reads through the value it was given
Visible(ret) == [g \in ret.keys |-> device_states[g]]

\* req: a group for get_device_state, 0 for get_all_states
KeysOf(req) == IF req = 0 THEN DOMAIN device_states ELSE {req} \cap DOMAIN device_states

GetStates(req) ==
    /\ reader_pc = "idle"
    /\ reader_count < MaxReads
    /\ IF FastPath
         THEN ReturnStates(KeysOf(req), <<>>)
         ELSE /\ state_lock' = Enqueue("reader")
              /\ reader_pc' = "wait"
              /\ reader_req' = req
              /\ reader_ret' = [keys |-> {}, seen |-> Empty]
              /\ lastOp' = Nop
              /\ UNCHANGED reader_count
    /\ UNCHANGED <<now, device_states, sync_conflicts, command_queue, rx,
                   monVars, hubVars, syncVars, sim_count, last_update, rx_count>>

ReaderGranted ==
    /\ reader_pc = "wait"
    /\ Granted("reader")
    /\ ReturnStates(KeysOf(reader_req), Tail(state_lock.waiters))
    /\ UNCHANGED <<now, device_states, sync_conflicts, command_queue, rx,
                   monVars, hubVars, syncVars, sim_count, last_update, rx_count>>

\* ------------------------------------------------------------- harness
\* a test sets a lingering pending_mqtt_update on a tracked entry
SimulatePendingMqtt(g) ==
    /\ sim_count < MaxSim
    /\ g \in DOMAIN device_states
    /\ ~state_lock.locked
    /\ ~device_states[g].pending_mqtt_update
    /\ sim_count' = sim_count + 1
    /\ device_states' = [device_states EXCEPT ![g].pending_mqtt_update = TRUE]
    /\ lastOp' = Nop
    /\ UNCHANGED <<now, state_lock, sync_conflicts, command_queue, rx,
                   monVars, hubVars, syncVars, readerVars, last_update, rx_count>>

\* ------------------------------------------------------------ the clock
\* d seconds pass
Elapse(d) ==
    /\ ticks < MaxTicks
    /\ ticks' = ticks + 1
    /\ now' = now + d
    /\ lastOp' = Nop
    /\ UNCHANGED <<device_states, state_lock, sync_conflicts, command_queue, rx,
                   rx_count, monVars, hubVars, syncVars, readerVars, sim_count,
                   last_update, orderVars, pollVars, cleanVars, codec, sysVars>>

\* ------------------------------------------- _poll_loop / _poll_devices
\* DeviceState.age
Age(ds, t) == t - ds.last_updated

\* DeviceState.is_stale
IsStale(ds, t, max_age) == Age(ds, t) > max_age

\* _should_poll
ShouldPoll(table, t, last_poll) ==
    IF t - last_poll < PollInterval THEN FALSE
    ELSE LET recent_events ==
                 \E g \in DOMAIN table : table[g].last_cbus_update > t - PollInterval
             stale_states ==
                 \E g \in DOMAIN table : IsStale(table[g], t, PollInterval * 2)
         IN  IF ~recent_events THEN TRUE ELSE stale_states

\* get_group_level's wire command "gAAGG" as the poll puts it on the queue
Query(g) == [kind |-> "get", group |-> g, level |-> 0, id |-> 0]

\* the keys the iterator over device_states.keys() has still to yield (the
\* table is kept in ascending group order)
After(pos) == {g \in DOMAIN device_states : g > pos}

\* one step of the for loop of _poll_devices: the iterator's next(), then
\* the body up to asyncio.sleep(0.05); when the iterator is exhausted,
\* last_poll_time is set and the poll loop sleeps again.  next() raises
\* RuntimeError when the dict has changed size; _poll_loop catches it,
\* counts it and sleeps 5 s before its next round
PollNext(pos, used, log) ==
    IF Cardinality(DOMAIN device_states) # used
      THEN /\ poll_errors' = poll_errors + 1
           /\ poll_pc' = "sleep"
           /\ poll_wake' = now + PollErrorSleep + PollInterval
           /\ poll_pos' = 0
           /\ poll_used' = 0
           /\ poll_log' = [log EXCEPT !.done = TRUE, !.failed = TRUE]
           /\ UNCHANGED <<command_queue, last_poll_time>>
    ELSE IF After(pos) = {}
      THEN /\ last_poll_time' = now
           /\ poll_pc' = "sleep"
           /\ poll_wake' = now + PollInterval
           /\ poll_pos' = 0
           /\ poll_used' = 0
           /\ poll_log' = [log EXCEPT !.done = TRUE]
           /\ UNCHANGED <<command_queue, poll_errors>>
    ELSE LET g == Min(After(pos))
         IN  /\ command_queue' = Append(command_queue, Query(g))
             /\ poll_pc' = "pass"
             /\ poll_pos' = g
             /\ poll_used' = used
             /\ poll_log' = [log EXCEPT !.sent = Append(@, g)]
             /\ UNCHANGED <<last_poll_time, poll_errors, poll_wake>>

\* asyncio.sleep(poll_interval) returns: _should_poll, then _poll_devices
PollTick ==
    /\ poll_pc = "sleep"
    /\ now >= poll_wake
    /\ LET log == [at |-> now, table |-> device_states, polled |-> TRUE,
                   sent |-> <<>>, done |-> FALSE, failed |-> FALSE]
       IN  IF ShouldPoll(device_states, now, last_poll_time)
             THEN PollNext(0, Cardinality(DOMAIN device_states), log)
             ELSE /\ poll_wake' = now + PollInterval
                  /\ poll_log' = [log EXCEPT !.polled = FALSE, !.done = TRUE]
                  /\ UNCHANGED <<command_queue, poll_pc, poll_pos, poll_used,
                                 last_poll_time, poll_errors>>
    /\ lastOp' = Nop
    /\ UNCHANGED <<now, device_states, state_lock, sync_conflicts, rx, rx_count,
                   monVars, hubVars, syncVars, readerVars, sim_count,
                   last_update, orderVars, ticks, cleanVars, codec, sysVars>>

\* asyncio.sleep(0.05) returns inside _poll_devices
PollStep ==
    /\ poll_pc = "pass"
    /\ PollNext(poll_pos, poll_used, poll_log)
    /\ lastOp' = Nop
    /\ UNCHANGED <<now, device_states, state_lock, sync_conflicts, rx, rx_count,
                   monVars, hubVars, syncVars, readerVars, sim_count,
                   last_update, orderVars, ticks, cleanVars, codec, sysVars>>

\* ------------------------------- _cleanup_loop / _cleanup_stale_states
\* a staleness test that already evicts at the age limit
StaleGroupsAtLimit(table, t) ==
    {g \in DOMAIN table : Age(table[g], t) >= MaxStateAge}

\* a staleness test that looks at the last bus update only
StaleGroupsByBusUpdate(table, t) ==
    {g \in DOMAIN table : t - table[g].last_cbus_update > MaxStateAge}

\* stale_groups
StaleGroups(table, t) ==
    {g \in DOMAIN table : IsStale(table[g], t, MaxStateAge)}

\* the body of _cleanup_stale_states, run with the lock held; it has no
\* await, so the lock is released in the same step
CleanupStaleStates(waiters) ==
    LET stale_groups == StaleGroups(device_states, now)
    IN  /\ device_states' = [g \in DOMAIN device_states \ stale_groups |->
                                device_states[g]]
        /\ last_update' = [g \in DOMAIN last_update \ stale_groups |->
                              last_update[g]]
        /\ state_lock' = Released(waiters)
        /\ cleanup_pc' = "sleep"
        /\ cleanup_wake' = now + CleanupSleep
        /\ lastOp' = [Nop EXCEPT !.op = "cleanup", !.table = device_states]

\* asyncio.sleep(300) returns
CleanupTick ==
    /\ cleanup_pc = "sleep"
    /\ now >= cleanup_wake
    /\ IF FastPath
         THEN CleanupStaleStates(<<>>)
         ELSE /\ state_lock' = Enqueue("cleanup")
              /\ cleanup_pc' = "wait"
              /\ lastOp' = Nop
              /\ UNCHANGED <<device_states, last_update, cleanup_wake>>
    /\ UNCHANGED <<now, sync_conflicts, command_queue, rx, rx_count, monVars,
                   hubVars, syncVars, readerVars, sim_count, orderVars, ticks,
                   pollVars, codec, sysVars>>

CleanupGranted ==
    /\ cleanup_pc = "wait"
    /\ Granted("cleanup")
    /\ CleanupStaleStates(Tail(state_lock.waiters))
    /\ UNCHANGED <<now, sync_conflicts, command_queue, rx, rx_count, monVars,
                   hubVars, syncVars, readerVars, sim_count, orderVars, ticks,
                   pollVars, codec, sysVars>>

\* ---------------------------------------- lines read by _monitoring_loop
\* the bytes of the lines the bus delivers, well formed and not
AppTexts   == {<<"3", "8">>, <<"3", "9">>, <<"3", "G">>}
GroupTexts == {<<"0", "1">>, <<"0", "2">>, <<"1", "5">>, <<"+", "1">>, <<"-", "1">>,
               <<"1", " ">>, <<"0", "x">>, <<"_", "1">>, <<"0", "G">>}
LevelTexts == {<<"0", "0">>, <<"0", "1">>, <<"6", "4">>, <<"+", "1">>, <<"0", "G">>}

GroupStateLines ==
    {<<"g">> \o a \o g \o l : a \in AppTexts, g \in GroupTexts, l \in LevelTexts}

OtherLines ==
    { <<"g">>, <<"g", "3", "8">>, <<"g", "3", "8", "0", "1", "0">>,
      <<"g", "3", "8", "0", "1", "0", "1", "X">>,
      <<"@", "3", "8", "0", "1", "0", "1">>,
      <<"\\", "3", "8", "0", "1", "0", "1">>,
      <<"x", "3", "8", "0", "1", "0", "1">>,
      <<"G", "3", "8", "0", "1", "0", "1">> }

DecoderLines == GroupStateLines \cup OtherLines

\* one round of _monitoring_loop: _read_response returns the line,
\* _process_response decodes it and awaits the callback _on_cbus_event
ReadLine(line) ==
    /\ mon_pc = "read"
    /\ rx_count < MaxReports
    /\ rx_count' = rx_count + 1
    /\ LET events == ProcessResponse(line)
       IN  /\ codec' = [op |-> "line", text |-> line, events |-> events, args |-> <<>>]
           /\ IF events = <<>>
                THEN /\ lastOp' = Nop
                     /\ UNCHANGED <<device_states, last_update, state_lock,
                                    mon_pc, mon_event>>
                ELSE LET ev == [group |-> events[1].group, level |-> events[1].level,
                                tag |-> 0]
                     IN  IF FastPath
                           THEN /\ ApplyBusEvent(ev, FALSE)
                                /\ mon_event' = NoEvent
                           ELSE /\ state_lock' = Enqueue("mon")
                                /\ mon_pc' = "wait"
                                /\ mon_event' = ev
                                /\ lastOp' = Nop
                                /\ UNCHANGED <<device_states, last_update>>
    /\ UNCHANGED <<now, sync_conflicts, command_queue, rx, hubVars, syncVars,
                   readerVars, sim_count, orderVars, loopVars, sysVars>>

\* ------------------------------------------ the codec on its own
Bytes == 0..MaxByte
ByteSamples == {0, 9, 10, 21, Application, 160, MaxByte}

\* _process_response on the line the bus sends for (group, level); the
\* codec is applied once in a run
Decode(group, level) ==
    /\ codec = NoCodec
    /\ LET line == GroupStateLine(Application, group, level)
       IN  codec' = [op |-> "decode", text |-> line,
                     events |-> ProcessResponse(line), args |-> <<group, level>>]
    /\ lastOp' = Nop
    /\ UNCHANGED <<now, device_states, state_lock, sync_conflicts, command_queue,
                   rx, rx_count, monVars, hubVars, syncVars, readerVars,
                   sim_count, last_update, orderVars, loopVars, sysVars>>

\* send_command: the text is put on the command queue
SendCommand(op, text, args) ==
    /\ codec = NoCodec
    /\ command_queue' = Append(command_queue, text)
    /\ codec' = [op |-> op, text |-> text, events |-> <<>>, args |-> args]
    /\ lastOp' = Nop
    /\ UNCHANGED <<now, device_states, state_lock, sync_conflicts,
                   rx, rx_count, monVars, hubVars, syncVars, readerVars,
                   sim_count, last_update, orderVars, loopVars, sysVars>>

\* set_group_level of an interface configured with the application
EncodeSet(application, group, level) ==
    SendCommand("set", SetGroupLevelText(application, group, level),
                <<application, group, level>>)

\* ramp_group
EncodeRamp(application, group, level, ramp_time) ==
    SendCommand("ramp", RampGroupText(application, group, level, ramp_time),
                <<application, group, level, ramp_time>>)

\* ----------------------------------------------- _handle_device_command
UpperAlpha == <<"A", "B", "C", "D", "E", "F", "G", "H", "I", "J", "K", "L", "M",
                "N", "O", "P", "Q", "R", "S", "T", "U", "V", "W", "X", "Y", "Z">>
LowerAlpha == <<"a", "b", "c", "d", "e", "f", "g", "h", "i", "j", "k", "l", "m",
                "n", "o", "p", "q", "r", "s", "t", "u", "v", "w", "x", "y", "z">>

LowerChar(c) ==
    IF \E i \in 1..26 : UpperAlpha[i] = c
      THEN LowerAlpha[CHOOSE i \in 1..26 : UpperAlpha[i] = c]
      ELSE c

\* str.lower()
Lower(s) == [i \in 1..Len(s) |-> LowerChar(s[i])]

\* the payloads that switch a device on and off
OnWords  == { <<"o", "n">>, <<"t", "r", "u", "e">>, <<"1">> }
OffWords == { <<"o", "f", "f">>, <<"f", "a", "l", "s", "e">>, <<"0">> }

\* int(payload)
IntOf(s) == ParseInt(s, 10)

\* the first index from i on at which s holds c, 0 when there is none
IndexFrom(s, c, i) ==
    LET hits == {j \in i..Len(s) : s[j] = c}
    IN  IF hits = {} THEN 0 ELSE CHOOSE j \in hits : \A k \in hits : j <= k

\* str.split(sep)
RECURSIVE Split(_, _)
Split(s, sep) ==
    LET at == IndexFrom(s, sep, 1)
    IN  IF at = 0 THEN <<s>>
        ELSE <<SubSeq(s, 1, at - 1)>> \o Split(SubSeq(s, at + 1, Len(s)), sep)

\* an integer of a JSON document: digits after an optional minus sign
JsonInt(s) ==
    LET digits == IF s # <<>> /\ Head(s) = "-" THEN Tail(s) ELSE s
    IN  IF /\ digits # <<>>
           /\ \A i \in 1..Len(digits) : DigitValue(digits[i]) \in 0..9
           /\ (Len(digits) > 1 => Head(digits) # "0")
          THEN IntOf(s)
          ELSE [ok |-> FALSE, value |-> 0]

NotJson == [kind |-> "invalid", members |-> <<>>]

\* the members "name":integer of an object, from position i to the closing
\* brace that ends the text
RECURSIVE JsonMembers(_, _, _)

\* after the member that ends at e: the next member, or the end of the text
JsonNext(s, e, name, v, acc) ==
    IF ~v.ok THEN NotJson
    ELSE IF s[e] = ","
      THEN JsonMembers(s, e + 1, Append(acc, [name |-> name, value |-> v.value]))
    ELSE IF e = Len(s)
      THEN [kind |-> "object",
            members |-> Append(acc, [name |-> name, value |-> v.value])]
    ELSE NotJson

\* the end of a member value that starts at from: the first "," or "}"
MemberEnd(s, from) ==
    LET ends == {j \in from..Len(s) : s[j] \in {",", "}"}}
    IN  IF ends = {} THEN 0 ELSE CHOOSE j \in ends : \A k \in ends : j <= k

\* the value of the member whose name lies between the quotes at i and q
JsonValue(s, i, q, e, acc) ==
    IF e = 0 THEN NotJson
    ELSE JsonNext(s, e, SubSeq(s, i + 1, q - 1), JsonInt(SubSeq(s, q + 2, e - 1)), acc)

JsonName(s, i, q, acc) ==
    IF q = 0 \/ q + 1 > Len(s) \/ s[q + 1] # ":" THEN NotJson
    ELSE JsonValue(s, i, q, MemberEnd(s, q + 2), acc)

JsonMembers(s, i, acc) ==
    IF i > Len(s) \/ s[i] # "\"" THEN NotJson
    ELSE JsonName(s, i, IndexFrom(s, "\"", i + 1), acc)

\* one "." with digits on both sides
IsJsonFraction(s) ==
    LET dot == IndexFrom(s, ".", 1)
    IN  /\ dot # 0
        /\ JsonInt(SubSeq(s, 1, dot - 1)).ok
        /\ dot < Len(s)
        /\ \A i \in (dot + 1)..Len(s) : DigitValue(s[i]) \in 0..9

\* json.loads for the documents a hub sends: an object whose members are
\* integers written without white space, or a number with a fraction; kind
\* "invalid" stands for JSONDecodeError
JsonLoads(s) ==
    IF s = <<"{", "}">> THEN [kind |-> "object", members |-> <<>>]
    ELSE IF s # <<>> /\ Head(s) = "{" THEN JsonMembers(s, 2, <<>>)
    ELSE IF IsJsonFraction(s) THEN [kind |-> "number", members |-> <<>>]
    ELSE NotJson

\* dict.get(name, default); of two members of one name the later one counts
DictGet(members, name, default) ==
    LET hits == {i \in 1..Len(members) : members[i].name = name}
    IN  IF hits = {} THEN default
        ELSE members[CHOOSE i \in hits : \A k \in hits : k <= i].value

BrightnessKey == <<"b", "r", "i", "g", "h", "t", "n", "e", "s", "s">>
LevelKey      == <<"l", "e", "v", "e", "l">>

\* max(0, min(255, level))
Clamp(level) ==
    IF level > MaxByte THEN MaxByte ELSE IF level < 0 THEN 0 ELSE level

\* the level the payload stands for; ok is FALSE when the handler returns
\* or fails before it forwards anything
PayloadLevel(payload) ==
    IF Lower(payload) \in OnWords THEN [ok |-> TRUE, level |-> MaxByte]
    ELSE IF Lower(payload) \in OffWords THEN [ok |-> TRUE, level |-> 0]
    ELSE IF IntOf(payload).ok
      THEN [ok |-> TRUE, level |-> Clamp(IntOf(payload).value)]
    ELSE LET data == JsonLoads(payload)
         IN  IF data.kind = "object"
               THEN [ok |-> TRUE,
                     level |-> DictGet(data.members, BrightnessKey,
                                       DictGet(data.members, LevelKey, 0))]
               ELSE [ok |-> FALSE, level |-> 0]

\* the call handle_mqtt_command(group, level) the handler makes for a
\* message, or none
DeviceCommand(topic, payload) ==
    LET topic_parts == Split(topic, "/")
        group       == IF Len(topic_parts) >= 4 THEN IntOf(topic_parts[4])
                       ELSE [ok |-> FALSE, value |-> 0]
        parsed      == PayloadLevel(payload)
    IN  IF group.ok /\ parsed.ok
          THEN << [group |-> group.value, level |-> parsed.level] >>
          ELSE <<>>

\* str(n)
RECURSIVE DecimalDigitsOf(_)
DecimalDigitsOf(n) ==
    IF n < 10 THEN <<HexUpper[n + 1]>>
    ELSE Append(DecimalDigitsOf(n \div 10), HexUpper[(n % 10) + 1])

DecimalText(n) ==
    IF n >= 0 THEN DecimalDigitsOf(n) ELSE <<"-">> \o DecimalDigitsOf(0 - n)

\* the topic <command_topic>/light/<group>/set
CommandTopic(groupText) ==
    <<"c", "b", "u", "s", "/", "c", "o", "m", "m", "a", "n", "d", "/",
      "l", "i", "g", "h", "t", "/">> \o groupText \o <<"/", "s", "e", "t">>

\* json.dumps of an object with integer members, without white space
RECURSIVE JsonMembersText(_)
JsonMembersText(members) ==
    IF members = <<>> THEN <<>>
    ELSE <<"\"">> \o Head(members).name \o <<"\"", ":">>
         \o DecimalText(Head(members).value)
         \o (IF Len(members) > 1 THEN <<",">> ELSE <<>>)
         \o JsonMembersText(Tail(members))

JsonText(members) == <<"{">> \o JsonMembersText(members) \o <<"}">>

\* the messages of a hub: words, numbers around the range of a level,
\* objects with a level and a brightness, and texts that are none of these
NumberPayloads == -2..(MaxByte + 2)
WordPayloads ==
    { <<"o", "n">>, <<"O", "N">>, <<"O", "n">>, <<"o", "f", "f">>,
      <<"O", "F", "F">>, <<"t", "r", "u", "e">>, <<"f", "a", "l", "s", "e">> }
JsonLevels == {0, MaxLevel, 100, MaxByte, MaxByte + 45}
JsonPayloads ==
    { <<>> }
    \cup { << [name |-> LevelKey, value |-> l] >> : l \in JsonLevels }
    \cup { << [name |-> BrightnessKey, value |-> b] >> : b \in JsonLevels }
    \cup { << [name |-> BrightnessKey, value |-> b], [name |-> LevelKey, value |-> l] >> :
              b \in JsonLevels, l \in JsonLevels }
    \cup { << [name |-> LevelKey, value |-> l], [name |-> LevelKey, value |-> MaxLevel] >> :
              l \in JsonLevels }
OtherPayloads ==
    { <<>>, <<"d", "i", "m">>, <<" ", "o", "n">>, <<" ", "7", " ">>, <<"+", "7">>,
      <<"0", "7">>, <<"1", ".", "5">>, <<"{">>, <<"{", "\"", "l", "e", "v", "e", "l", "\"", "}">> }
TopicGroupTexts ==
    { DecimalText(g) : g \in Groups }
    \cup { <<"a">>, <<"0", "1">>, DecimalText(MaxByte + 45) }

\* _handle_message for a message on a command topic: the payload is parsed
\* and the command is forwarded to handle_mqtt_command; one message in a run
HandleDeviceCommand(groupText, kind, value, payload) ==
    LET calls == DeviceCommand(CommandTopic(groupText), payload)
    IN  /\ codec = NoCodec
        /\ codec' = [op |-> kind, text |-> payload, events |-> calls,
                     args |-> <<groupText, value>>]
        /\ IF calls # <<>>
             THEN HubCommand(calls[1].group, calls[1].level, MaxCmds)
             ELSE /\ lastOp' = Nop
                  /\ UNCHANGED <<now, device_states, state_lock, sync_conflicts,
                                 command_queue, rx, rx_count, monVars, hubVars,
                                 syncVars, readerVars, sim_count, last_update>>
        /\ UNCHANGED <<orderVars, loopVars, sysVars>>

\* the hub sends the number n, a word, an object, another text
NumberCommand(groupText, n) ==
    HandleDeviceCommand(groupText, "number", n, DecimalText(n))
WordCommand(groupText, w) ==
    HandleDeviceCommand(groupText, "word", Lower(w), w)
JsonCommand(groupText, members) ==
    HandleDeviceCommand(groupText, "json", members, JsonText(members))
TextCommand(groupText, t) ==
    HandleDeviceCommand(groupText, "text", t, t)

\* -------------------------------------- announcing devices to the hub
\* discovery.enabled and discovery.auto_discovery of the configuration
DiscoveryEnabled == TRUE
AutoDiscovery    == TRUE

\* what get_group_level returns: no level
None == <<>>

\* a get_group_level that returns a level
GetGroupLevelAnswers(g) == <<0>>

\* get_group_level: the query is put on the queue, the answer is not read
GetGroupLevel(g) == None

\* DeviceManager.get_device: is there a descriptor for the group
Known(g) == g \in ConfiguredGroups \cup discovered_devices

\* Device.dimmable: False for a configured device that does not set it,
\* True for the fallback light discover_device creates
Dimmable(g) == g \notin ConfiguredGroups

Message(kind, g) == [kind |-> kind, group |-> g]
Label(g) == [kind |-> "label", group |-> g, level |-> 0, id |-> 0]
ProbeLevel == 128

\* is_device_dimmable: the commands it puts on the queue
IsDeviceDimmable(g) ==
    IF GetGroupLevel(g) = None THEN <<Query(g)>>
    ELSE <<Query(g), SetGroupLevel(g, ProbeLevel, 0), Query(g),
           SetGroupLevel(g, Head(GetGroupLevel(g)), 0)>>

\* query_device_info: the commands it puts on the queue, and whether it
\* returns a description of the device
QueryDeviceInfo(g) ==
    IF GetGroupLevel(g) = None
      THEN [commands |-> <<Query(g)>>, found |-> FALSE]
      ELSE [commands |-> <<Query(g), Label(g), Label(g)>>
                         \o IsDeviceDimmable(g) \o IsDeviceDimmable(g),
            found |-> TRUE]

\* sorted(all_devices, key=group)
RECURSIVE SortedGroups(_)
SortedGroups(S) ==
    IF S = {} THEN <<>> ELSE <<Min(S)>> \o SortedGroups(S \ {Min(S)})

\* _publish of the state ("ON"/"OFF") of group g: without a connection
\* nothing is published and nothing is awaited, so the brightness follows
PublishState(g) ==
    IF mqtt_connected
      THEN /\ published' = Append(published, Message("state", g))
           /\ pub_pc' = "state"
      ELSE /\ pub_pc' = "return"
           /\ UNCHANGED published

\* _send_device_discovery, then the state
PublishConfigThenState(g) ==
    IF DiscoveryEnabled /\ mqtt_connected
      THEN /\ published' = Append(published, Message("config", g))
           /\ pub_pc' = "config"
      ELSE PublishState(g)

\* publish_state_update(group, ...) up to its first suspension
PublishStateUpdate(g) ==
    /\ pub_group' = g
    /\ IF Known(g)
         THEN /\ PublishState(g)
              /\ UNCHANGED <<discovered_devices, dm_queue>>
         ELSE IF AutoDiscovery
           THEN /\ dm_queue' = dm_queue \o <<Head(QueryDeviceInfo(g).commands)>>
                /\ pub_pc' = "query"
                /\ UNCHANGED <<discovered_devices, published>>
           ELSE /\ discovered_devices' = discovered_devices \cup {g}
                /\ PublishConfigThenState(g)
                /\ UNCHANGED dm_queue
    /\ UNCHANGED <<mqtt_connected, mqtt_pc, mqtt_todo>>

\* a step of the monitoring loop that may call publish_state_update
WithPublish ==
    IF mon_pc' = "pub" THEN PublishStateUpdate(lastOp'.group)
    ELSE UNCHANGED mqttVars

\* everything but the monitoring loop's publish is left alone
PublishFrame ==
    UNCHANGED <<now, device_states, state_lock, sync_conflicts, command_queue, rx,
                rx_count, monVars, hubVars, syncVars, readerVars, sim_count, lastOp,
                last_update, orderVars, loopVars, codec, mqtt_connected, mqtt_pc,
                mqtt_todo, pub_group, restVars>>

\* discover_device after the wait of get_group_level: the device is added
\* to discovered_devices and announced
PubQueryReturn ==
    /\ pub_pc = "query"
    /\ dm_queue' = dm_queue \o Tail(QueryDeviceInfo(pub_group).commands)
    /\ discovered_devices' = discovered_devices \cup {pub_group}
    /\ PublishConfigThenState(pub_group)
    /\ PublishFrame

\* the publish of the descriptor returns
PubConfigDone ==
    /\ pub_pc = "config"
    /\ PublishState(pub_group)
    /\ UNCHANGED <<discovered_devices, dm_queue>>
    /\ PublishFrame

\* the publish of the state returns; the brightness of a dimmable light
PubStateDone ==
    /\ pub_pc = "state"
    /\ IF Dimmable(pub_group) /\ mqtt_connected
         THEN /\ published' = Append(published, Message("level", pub_group))
              /\ pub_pc' = "level"
         ELSE /\ pub_pc' = "return"
              /\ UNCHANGED published
    /\ UNCHANGED <<discovered_devices, dm_queue>>
    /\ PublishFrame

PubLevelDone ==
    /\ pub_pc = "level"
    /\ pub_pc' = "return"
    /\ UNCHANGED <<published, discovered_devices, dm_queue>>
    /\ PublishFrame

\* publish_state_update returns to _update_device_state
PubReturn ==
    /\ pub_pc = "return"
    /\ MonPublishDone
    /\ pub_pc' = "idle"
    /\ pub_group' = 0
    /\ UNCHANGED <<mqtt_connected, mqtt_pc, mqtt_todo, published,
                   discovered_devices, dm_queue>>
    /\ UNCHANGED <<orderVars, loopVars, codec, restVars>>

\* everything but MQTTBridge.start is left alone
StartFrame ==
    UNCHANGED <<now, device_states, state_lock, sync_conflicts, command_queue, rx,
                rx_count, monVars, hubVars, syncVars, readerVars, sim_count, lastOp,
                last_update, orderVars, loopVars, codec, discovered_devices,
                pub_pc, pub_group, dm_queue, restVars>>

\* MQTTBridge.start: the client is connected; the subscriptions follow
MqttConnect ==
    /\ mqtt_pc = "connect"
    /\ mqtt_connected' = TRUE
    /\ mqtt_pc' = "subscribe"
    /\ UNCHANGED <<mqtt_todo, published>>
    /\ StartFrame

\* the descriptors of get_devices(), one publish after the other
SendDiscovery(todo) ==
    IF todo = <<>> \/ ~DiscoveryEnabled
      THEN /\ mqtt_pc' = "done"
           /\ mqtt_todo' = <<>>
           /\ UNCHANGED published
      ELSE /\ published' = IF mqtt_connected
                             THEN Append(published, Message("config", Head(todo)))
                             ELSE published
           /\ mqtt_pc' = "discovery"
           /\ mqtt_todo' = Tail(todo)

\* the subscriptions are made: _send_discovery_messages starts
MqttSubscribed ==
    /\ mqtt_pc = "subscribe"
    /\ SendDiscovery(SortedGroups(ConfiguredGroups \cup discovered_devices))
    /\ UNCHANGED mqtt_connected
    /\ StartFrame

\* one publish of _send_discovery_messages returns
MqttDiscoveryStep ==
    /\ mqtt_pc = "discovery"
    /\ SendDiscovery(mqtt_todo)
    /\ UNCHANGED mqtt_connected
    /\ StartFrame

\* ------------------------------------------------ the transport (tcp)
\* ping's status command "z"
PingCommand == [kind |-> "ping", group |-> 0, level |-> 0, id |-> 0]

\* _send_command: writer.write(command + "\r\n") hands one whole line to the
\* transport; by: the caller, n: the number of the take of the command loop
Written(command, by, n) == Append(wire, [cmd |-> command, by |-> by, n |-> n])

\* an except branch of the command loop that puts the command back
RetryOnSendError(queue, command) == Append(queue, command)

\* the queue after _send_command has raised in the command loop: the error
\* is logged, the loop sleeps 1 s, the command is not put back
OnSendError(queue, command) == queue

\* the frame of the steps of the command loop and of ping
WireFrame ==
    /\ lastOp' = Nop
    /\ UNCHANGED <<now, device_states, state_lock, sync_conflicts, rx, rx_count,
                   monVars, hubVars, syncVars, readerVars, sim_count, last_update,
                   orderVars, loopVars, codec, mqttVars, connected, connection,
                   query_failed, raised, dm_call, stopVars, bootVars, histVars>>

\* queue.get() returns a command, _send_command writes it and drain returns
CommandLoopSend ==
    /\ cmd_pc = "get"
    /\ connected /\ connection = Open
    /\ command_queue # <<>>
    /\ command_queue' = Tail(command_queue)
    /\ cmd_taken' = cmd_taken + 1
    /\ wire' = Written(Head(command_queue), "loop", cmd_taken + 1)
    /\ UNCHANGED <<cmd_pc, dropped, faults, pings>>
    /\ WireFrame

\* queue.get() returns a command and _send_command raises (the connection is
\* broken): write or drain fails, the line may or may not have left
CommandLoopError ==
    /\ cmd_pc = "get"
    /\ connected /\ connection = Open
    /\ command_queue # <<>>
    /\ faults < MaxFaults
    /\ faults' = faults + 1
    /\ command_queue' = OnSendError(Tail(command_queue), Head(command_queue))
    /\ cmd_taken' = cmd_taken + 1
    /\ \E left \in BOOLEAN :
           wire' = IF left THEN Written(Head(command_queue), "loop", cmd_taken + 1)
                           ELSE wire
    /\ dropped' = Append(dropped, [cmd |-> Head(command_queue), n |-> cmd_taken + 1,
                                   at |-> Len(wire')])
    /\ cmd_pc' = "sleep"
    /\ UNCHANGED pings
    /\ WireFrame

\* asyncio.sleep(1) returns in the except branch of the command loop
CommandLoopWake ==
    /\ cmd_pc = "sleep"
    /\ cmd_pc' = "get"
    /\ UNCHANGED <<command_queue, wire, cmd_taken, dropped, faults, pings>>
    /\ WireFrame

\* ping: _send_command("z") called by the owner of the interface
Ping ==
    /\ pings < MaxPings
    /\ pings' = pings + 1
    /\ IF connected /\ connection = Open
         THEN wire' = Written(PingCommand, "ping", 0)
         ELSE wire' = wire
    /\ UNCHANGED <<command_queue, cmd_pc, cmd_taken, dropped, faults>>
    /\ WireFrame

\* the frame of the poll steps in which a query fails
QueryFailed(g) ==
    /\ Len(query_failed) < MaxFaults
    /\ query_failed' = Append(query_failed, [group |-> g, at |-> now])
    /\ lastOp' = Nop
    /\ UNCHANGED <<now, device_states, state_lock, sync_conflicts, rx, rx_count,
                   monVars, hubVars, syncVars, readerVars, sim_count,
                   last_update, orderVars, ticks, cleanVars, codec, mqttVars,
                   ifVars, faults, pings, raised, dm_call, stopVars, bootVars, histVars>>

\* asyncio.sleep(poll_interval) returns and send_command raises for the first
\* group of the pass: the except inside the for loop logs it and the loop
\* goes to the iterator's next() without suspending
PollTickError ==
    /\ poll_pc = "sleep"
    /\ now >= poll_wake
    /\ ShouldPoll(device_states, now, last_poll_time)
    /\ DOMAIN device_states # {}
    /\ LET g == Min(DOMAIN device_states)
           log == [at |-> now, table |-> device_states, polled |-> TRUE,
                   sent |-> <<>>, done |-> FALSE, failed |-> FALSE]
       IN  /\ PollNext(g, Cardinality(DOMAIN device_states), log)
           /\ QueryFailed(g)

\* asyncio.sleep(0.05) returns and send_command raises for the next group
PollStepError ==
    /\ poll_pc = "pass"
    /\ Cardinality(DOMAIN device_states) = poll_used
    /\ After(poll_pos) # {}
    /\ LET g == Min(After(poll_pos))
       IN  /\ PollNext(g, poll_used, poll_log)
           /\ QueryFailed(g)

\* ------------------------------------------------------------- stop
\* the tasks: _monitoring_loop, _command_loop, _poll_loop, _sync_loop,
\* _cleanup_loop, _message_listener, _heartbeat_loop
MqttTasks    == {"hub", "heartbeat"}
ManagerTasks == {"poll", "sync", "cleanup"}
CBusTasks    == {"mon", "cmd"}
Tasks        == MqttTasks \cup ManagerTasks \cup CBusTasks

\* a task runs on until cancel() has been called for it; from then on the
\* next thing it receives is CancelledError
Alive(t) == t \notin cancelled

\* disconnect from writer.close() on: when close or wait_closed raises, the
\* two assignments are skipped and the except branch only logs
Disconnect(closed) ==
    IF closed
      THEN /\ connection' = Closed
           /\ connected' = FALSE
      ELSE UNCHANGED <<connected, connection>>

\* the frame of the steps of stop
StopFrame ==
    /\ lastOp' = Nop
    /\ UNCHANGED <<now, device_states, sync_conflicts, command_queue, rx, rx_count,
                   mon_event, hub_cmd, hub_count, sync_remaining, sync_pre, sync_pubs,
                   readerVars, sim_count, last_update, orderVars, ticks,
                   poll_wake, poll_pos, poll_used, last_poll_time, poll_errors,
                   poll_log, cleanup_wake, codec, mqtt_pc, mqtt_todo, published,
                   discovered_devices, pub_pc, pub_group, dm_queue, wire,
                   cmd_taken, dropped, faultVars, bootVars, histVars>>

\* MQTTBridge.stop after client.__aexit__, StateManager.stop and
\* CBusInterface.stop up to the await of wait_closed in disconnect
StopComponents ==
    /\ mqtt_connected' = FALSE
    /\ cancelled' = cancelled \cup ManagerTasks \cup CBusTasks
    /\ stop_pc' = IF connected THEN "closing" ELSE "stopped"
    /\ UNCHANGED <<connected, connection>>

\* CBusMQTTBridge.stop: MQTTBridge.stop cancels its tasks and awaits
\* client.__aexit__ when the client is connected
BridgeStop ==
    /\ stop_pc = "running"
    /\ mqtt_pc = "done"
    /\ IF mqtt_connected
         THEN /\ cancelled' = cancelled \cup MqttTasks
              /\ stop_pc' = "aexit"
              /\ UNCHANGED <<mqtt_connected, connected, connection>>
         ELSE /\ StopComponents
              /\ cancelled' = Tasks
    /\ UNCHANGED <<state_lock, mon_pc, hub_pc, sync_pc, poll_pc, cleanup_pc, cmd_pc,
                   ended>>
    /\ StopFrame

\* client.__aexit__ returns or raises (the error is logged)
MqttExited ==
    /\ stop_pc = "aexit"
    /\ StopComponents
    /\ UNCHANGED <<state_lock, mon_pc, hub_pc, sync_pc, poll_pc, cleanup_pc, cmd_pc,
                   ended>>
    /\ StopFrame

\* wait_closed returns (closed) or close has failed: disconnect returns
DisconnectEnd ==
    /\ stop_pc = "closing"
    /\ \E closed \in BOOLEAN : Disconnect(closed)
    /\ stop_pc' = "stopped"
    /\ UNCHANGED <<state_lock, mon_pc, hub_pc, sync_pc, poll_pc, cleanup_pc, cmd_pc,
                   mqtt_connected, cancelled, ended>>
    /\ StopFrame

\* the waiters of the lock without the tasks of S
Without(waiters, S) == SelectSeq(waiters, LAMBDA w : w \notin S)

\* the tasks that hold the state lock (awaiting a publish inside async with)
Holders == {t \in {"mon"} : mon_pc = "pub"} \cup {t \in {"sync"} : sync_pc = "pub"}

\* the event loop runs the cancelled tasks: each receives CancelledError at
\* its suspension point and ends; async with releases the lock it holds,
\* acquire() withdraws it from the waiters
TasksCancelled ==
    LET S == cancelled \ ended
        Pc(t, pc) == IF t \in S THEN "cancelled" ELSE pc
    IN  /\ S # {}
        /\ ended' = cancelled
        /\ state_lock' = IF Holders \cap S # {}
                           THEN Released(Without(state_lock.waiters, S))
                           ELSE [state_lock EXCEPT !.waiters = Without(@, S)]
        /\ mon_pc' = Pc("mon", mon_pc)
        /\ hub_pc' = Pc("hub", hub_pc)
        /\ sync_pc' = Pc("sync", sync_pc)
        /\ poll_pc' = Pc("poll", poll_pc)
        /\ cleanup_pc' = Pc("cleanup", cleanup_pc)
        /\ cmd_pc' = Pc("cmd", cmd_pc)
        /\ UNCHANGED <<mqtt_connected, connected, connection, stop_pc, cancelled>>
        /\ StopFrame

\* _heartbeat_loop: asyncio.sleep(30) returns and the status is published
Heartbeat ==
    /\ mqtt_connected
    /\ Cardinality({i \in 1..Len(published) : published[i].kind = "status"}) < MaxBeats
    /\ published' = Append(published, Message("status", 0))
    /\ UNCHANGED <<mqtt_connected, mqtt_pc, mqtt_todo>>
    /\ StartFrame

\* ---------------------------------------------- errors inside a loop
\* a loop without "except Exception": the exception ends the task
Terminates(pc) == "ended"

\* "except Exception" of a loop: the error is logged, the loop sleeps its
\* back-off and goes on with its next iteration, waiting at pc
Continues(pc) == pc

\* the frame of a step in which the loop t raises
Raised(t) ==
    /\ Alive(t)
    /\ raised[t] < MaxFaults
    /\ raised' = [raised EXCEPT ![t] = @ + 1]
    /\ lastOp' = Nop
    /\ UNCHANGED <<now, device_states, state_lock, sync_conflicts, command_queue,
                   rx_count, mon_event, hub_cmd, hub_count, sync_remaining,
                   sync_pre, sync_pubs, readerVars, sim_count, last_update,
                   orderVars, ticks, poll_pos, poll_used, last_poll_time, codec,
                   mqttVars, ifVars, faults, pings, query_failed, dm_call,
                   stopVars, bootVars, histVars>>

\* _read_response returns a line and processing it raises: 1 s back-off
MonError ==
    /\ mon_pc = "read"
    /\ rx # <<>>
    /\ rx' = Tail(rx)
    /\ mon_pc' = Continues("read")
    /\ UNCHANGED <<hub_pc, sync_pc, poll_pc, poll_wake, poll_errors, poll_log,
                   cleanup_pc, cleanup_wake>>
    /\ Raised("mon")

\* _handle_message raises for one inbound message: the listener logs it and
\* takes the next message
HubError ==
    /\ hub_pc = "idle"
    /\ mqtt_pc = "done"
    /\ hub_pc' = Continues("idle")
    /\ UNCHANGED <<rx, mon_pc, sync_pc, poll_pc, poll_wake, poll_errors, poll_log,
                   cleanup_pc, cleanup_wake>>
    /\ Raised("hub")

\* asyncio.sleep(poll_interval) returns and the tick raises: the error is
\* counted, 5 s back-off, then the next sleep(poll_interval)
PollError ==
    /\ poll_pc = "sleep"
    /\ now >= poll_wake
    /\ poll_errors' = poll_errors + 1
    /\ poll_pc' = Continues("sleep")
    /\ poll_wake' = now + PollErrorSleep + PollInterval
    /\ poll_log' = [at |-> now, table |-> device_states, polled |-> TRUE,
                    sent |-> <<>>, done |-> TRUE, failed |-> TRUE]
    /\ UNCHANGED <<rx, mon_pc, hub_pc, sync_pc, cleanup_pc, cleanup_wake>>
    /\ Raised("poll")

\* _check_sync_conflicts raises: 10 s back-off, then the next round
SyncError ==
    /\ sync_pc = "idle"
    /\ sync_pc' = Continues("idle")
    /\ UNCHANGED <<rx, mon_pc, hub_pc, poll_pc, poll_wake, poll_errors, poll_log,
                   cleanup_pc, cleanup_wake>>
    /\ Raised("sync")

\* asyncio.sleep(300) returns and _cleanup_stale_states raises: 60 s
\* back-off, then the next sleep(300)
CleanupError ==
    /\ cleanup_pc = "sleep"
    /\ now >= cleanup_wake
    /\ cleanup_pc' = Continues("sleep")
    /\ cleanup_wake' = now + CleanupErrorSleep + CleanupSleep
    /\ UNCHANGED <<rx, mon_pc, hub_pc, sync_pc, poll_pc, poll_wake, poll_errors,
                   poll_log>>
    /\ Raised("cleanup")

\* ------------------------------------------------------ DeviceManager
\* a Device of area a for group g (dataclass instances are truthy)
Device(g, a) == [group |-> g, area |-> a]

\* the contents a device map can have: Devices of area a for some groups
DeviceMaps(a) == {[g \in S |-> Device(g, a)] : S \in SUBSET Groups}

\* dict.get(key)
Get(map, key) == IF key \in DOMAIN map THEN map[key] ELSE None

\* Python's "a or b" for a value that is a Device or None
Or(a, b) == IF a # None THEN a ELSE b

\* a lookup that asks the discovered devices first
GetDeviceDiscoveredFirst(devices, discovered, group) ==
    Or(Get(discovered, group), Get(devices, group))

\* get_device
GetDevice(devices, discovered, group) ==
    Or(Get(devices, group), Get(discovered, group))

\* everything but the history of the DeviceManager calls is left alone
CallFrame ==
    UNCHANGED <<now, device_states, state_lock, sync_conflicts, command_queue, rx,
                rx_count, monVars, hubVars, syncVars, readerVars, sim_count, lastOp,
                last_update, orderVars, loopVars, codec, mqttVars, ifVars, faults,
                pings, query_failed, raised, stopVars, bootVars, histVars>>

\* a call of get_device on a DeviceManager holding the two maps; the maps
\* are recorded as the call leaves them
GetDeviceCall(devices, discovered, group) ==
    /\ dm_call' = [op |-> "get_device", devices |-> devices,
                   discovered |-> discovered, group |-> group,
                   result |-> GetDevice(devices, discovered, group),
                   devices_after |-> devices, discovered_after |-> discovered]
    /\ CallFrame

\* the values of DeviceType
DeviceTypes == {"light", "fan", "switch", "sensor", "binary_sensor", "cover",
                "climate"}

\* an Optional value that is present is a one-element tuple, None the empty
\* one
\* Device._get_default_icon
DefaultIcon(device_type) ==
    CASE device_type = "light" -> <<"mdi:lightbulb">>
      [] device_type = "fan" -> <<"mdi:fan">>
      [] device_type = "switch" -> <<"mdi:light-switch">>
      [] device_type = "sensor" -> <<"mdi:thermometer">>
      [] device_type = "binary_sensor" -> <<"mdi:motion-sensor">>
      [] device_type = "cover" -> <<"mdi:blinds">>
      [] device_type = "climate" -> <<"mdi:thermostat">>
      [] OTHER -> <<"mdi:help-circle">>

\* Device._get_default_device_class
DefaultDeviceClass(device_type) ==
    CASE device_type = "binary_sensor" -> <<"motion">>
      [] device_type = "sensor" -> <<"temperature">>
      [] OTHER -> None

\* Device.__post_init__
PostInit(device) ==
    [device EXCEPT
       !.icon = IF @ = None THEN DefaultIcon(device.device_type) ELSE @,
       !.device_class = IF @ = None THEN DefaultDeviceClass(device.device_type)
                        ELSE @]

\* the keys of the dict built from a template
TemplateKeys == {"device_type", "dimmable", "fade_time", "icon", "device_class",
                 "state_class", "unit_of_measurement", "custom_attributes"}

\* the optional keys of a device configuration that Device(...) reads
ConfigKeys == {"type", "dimmable", "fade_time", "icon", "device_class",
               "state_class", "unit_of_measurement", "custom_attributes"}

\* the loaded templates (self.templates)
Templates ==
    [name \in {"dimmer", "extractor"} |->
        IF name = "dimmer"
          THEN [name |-> name, device_type |-> "light", dimmable |-> TRUE,
                fade_time |-> 2, icon |-> <<"mdi:lamp">>,
                device_class |-> <<"light">>, state_class |-> <<"measurement">>,
                unit_of_measurement |-> <<"%">>, custom_attributes |-> {"zone"}]
          ELSE [name |-> name, device_type |-> "fan", dimmable |-> FALSE,
                fade_time |-> 1, icon |-> <<"mdi:fan-alert">>,
                device_class |-> <<"fan">>, state_class |-> <<"total">>,
                unit_of_measurement |-> <<"rpm">>, custom_attributes |-> {"duct"}]]

\* the values a device configuration gives explicitly
Explicit ==
    [type |-> "switch", dimmable |-> FALSE, fade_time |-> 5,
     icon |-> <<"mdi:star">>, device_class |-> <<"outlet">>,
     state_class |-> <<"total_increasing">>, unit_of_measurement |-> <<"W">>,
     custom_attributes |-> {"room"}]

\* a device configuration that names a template and gives the keys of S
DeviceConfig(template_name, S) ==
    [k \in {"group", "name", "template"} \cup S |->
        CASE k = "group" -> 1
          [] k = "name" -> <<"Lamp">>
          [] k = "template" -> template_name
          [] OTHER -> Explicit[k]]

\* the dict built from a template
TemplateDict(template) == [k \in TemplateKeys |-> template[k]]

\* dict.update: the keys of b override those of a
Update(a, b) == [k \in DOMAIN a \cup DOMAIN b |-> IF k \in DOMAIN b THEN b[k] ELSE a[k]]

\* dict.get(key, default)
GetOr(map, key, default) == IF key \in DOMAIN map THEN map[key] ELSE default

\* _create_device_from_config: the Device, or the KeyError / ValueError that
\* config['type'] / DeviceType(...) raises
CreateDeviceFromConfig(config, templates) ==
    LET template_name == Get(config, "template")
        merged == IF template_name # None /\ Head(template_name) \in DOMAIN templates
                    THEN Update(TemplateDict(templates[Head(template_name)]), config)
                    ELSE config
    IN  IF "type" \notin DOMAIN merged THEN [raised |-> "KeyError"]
        ELSE IF merged["type"] \notin DeviceTypes THEN [raised |-> "ValueError"]
        ELSE PostInit([raised |-> "",
                       group |-> merged["group"],
                       name |-> merged["name"],
                       device_type |-> merged["type"],
                       area |-> Get(merged, "area"),
                       icon |-> Get(merged, "icon"),
                       dimmable |-> GetOr(merged, "dimmable", FALSE),
                       fade_time |-> GetOr(merged, "fade_time", 0),
                       unit_of_measurement |-> Get(merged, "unit_of_measurement"),
                       device_class |-> Get(merged, "device_class"),
                       state_class |-> Get(merged, "state_class"),
                       template |-> template_name,
                       custom_attributes |-> GetOr(merged, "custom_attributes", {})])

\* a call of _create_device_from_config
CreateDeviceCall(config) ==
    /\ dm_call' = [op |-> "create", config |-> config,
                   result |-> CreateDeviceFromConfig(config, Templates)]
    /\ CallFrame

\* map[key] = value
SetItem(map, key, value) ==
    [k \in DOMAIN map \cup {key} |-> IF k = key THEN value ELSE map[k]]

\* the name of a device made without a label: "C-Bus Device {group}"
DefaultName(group) == <<"C-Bus Device", group>>

\* the value query_device_info returns: None when the level query gives
\* None; else the info of a group whose level does not follow the dimming
\* probe
DeviceInfo(group) ==
    IF ~QueryDeviceInfo(group).found
      THEN None
      ELSE <<[group |-> group, name |-> DefaultName(group), type |-> "switch",
              dimmable |-> FALSE]>>

\* create_device_from_discovery
CreateDeviceFromDiscovery(device_info) ==
    PostInit([group |-> device_info.group, name |-> device_info.name,
              device_type |-> IF device_info.type \in {"light", "switch", "fan",
                                                       "sensor"}
                                THEN device_info.type ELSE "light",
              area |-> <<"Discovered">>, dimmable |-> device_info.dimmable,
              icon |-> None, device_class |-> None,
              discovery_method |-> "cbus_query"])

\* a fallback device that is never dimmable
FallbackNotDimmable(device_type) == FALSE

\* the dimmable flag of the fallback device of discover_device
FallbackDimmable(device_type) == device_type \in {"light", "fan"}

\* discover_device on a DeviceManager holding the two maps, with or without
\* the cbus_interface attribute: the value returned and the maps afterwards
DiscoverDevice(devices, discovered, has_interface, group, device_type) ==
    LET device_info == IF has_interface THEN DeviceInfo(group) ELSE None
        fallback == PostInit([group |-> group, name |-> DefaultName(group),
                              device_type |-> device_type,
                              area |-> <<"Discovered">>,
                              dimmable |-> FallbackDimmable(device_type),
                              icon |-> None, device_class |-> None,
                              discovery_method |-> "fallback"])
    IN  IF group \in DOMAIN devices
          THEN [result |-> devices[group], devices |-> devices,
                discovered |-> discovered]
        ELSE IF device_info # None
          THEN [result |-> CreateDeviceFromDiscovery(Head(device_info)),
                devices |-> devices,
                discovered |-> SetItem(discovered, group,
                                 CreateDeviceFromDiscovery(Head(device_info)))]
        ELSE [result |-> fallback, devices |-> devices,
              discovered |-> SetItem(discovered, group, fallback)]

\* a call of discover_device as publish_state_update makes it (the default
\* device_type)
DiscoverDeviceCall(devices, discovered, has_interface, group) ==
    /\ dm_call' = [op |-> "discover_device", devices |-> devices,
                   discovered |-> discovered, group |-> group,
                   result |-> DiscoverDevice(devices, discovered, has_interface,
                                             group, "light").result,
                   devices_after |-> DiscoverDevice(devices, discovered,
                                       has_interface, group, "light").devices,
                   discovered_after |-> DiscoverDevice(devices, discovered,
                                          has_interface, group, "light").discovered]
    /\ CallFrame

\* ------------------------------------------------------------- start-up
\* the configuration files the bridge can be given: the sections present,
\* the keys of the cbus and mqtt sections, the interface type and
\* discovery.auto_discovery
InterfaceTypes == {"tcp", "serial", "pci", "usb"}

Configs ==
    [sections : SUBSET {"cbus", "mqtt"},
     cbus : SUBSET {"interface", "host", "serial_port"},
     interface : InterfaceTypes,
     mqtt : SUBSET {"broker"},
     auto_discovery : BOOLEAN]

\* a validation that accepts every configuration
ValidateNothing(c) == ""

\* _validate_config: the ValueError it raises, "" when it returns
ValidateConfig(c) ==
    IF "cbus" \notin c.sections
      THEN "Missing required configuration section: cbus"
    ELSE IF "mqtt" \notin c.sections
      THEN "Missing required configuration section: mqtt"
    ELSE IF "interface" \notin c.cbus
      THEN "Missing 'interface' in cbus configuration"
    ELSE IF c.interface = "tcp" /\ "host" \notin c.cbus
      THEN "Missing 'host' for TCP interface"
    ELSE IF c.interface = "serial" /\ "serial_port" \notin c.cbus
      THEN "Missing 'serial_port' for serial interface"
    ELSE IF c.interface \notin {"tcp", "serial", "pci"}
      THEN "Invalid interface type"
    ELSE IF "broker" \notin c.mqtt
      THEN "Missing 'broker' in mqtt configuration"
    ELSE ""

\* the frame of the steps of initialize and start
BootFrame ==
    /\ lastOp' = Nop
    /\ UNCHANGED <<now, device_states, state_lock, sync_conflicts, command_queue,
                   rx, rx_count, monVars, hubVars, syncVars, readerVars, sim_count,
                   last_update, orderVars, loopVars, codec, mqttVars, cmd_pc,
                   cmd_taken, dropped, faultVars, stopVars, histVars>>

\* initialize: Config.load reads the file and validates it; a ValueError
\* leaves run through its finally, where stop finds no component
ConfigLoad(c) ==
    /\ boot_pc = "new"
    /\ config_data' = [loaded |-> TRUE, sections |-> c.sections, cbus |-> c.cbus,
                       interface |-> c.interface, mqtt |-> c.mqtt,
                       auto_discovery |-> c.auto_discovery,
                       error |-> ValidateConfig(c)]
    /\ boot_pc' = IF ValidateConfig(c) = "" THEN "loaded" ELSE "config_error"
    /\ UNCHANGED <<connected, connection, wire, attempts, conn_pc, init_pos,
                   conn_last>>
    /\ BootFrame

\* _connect_tcp can succeed; serial_asyncio has no Serial, so _connect_serial
\* and _connect_pci raise ConnectionError
CanConnect(interface_type) == interface_type = "tcp"

\* initialize: DeviceManager.initialize; with auto-discovery it connects an
\* interface of its own (whose level queries find no device); then the
\* other components are constructed
DeviceManagerInitialize ==
    /\ boot_pc = "loaded"
    /\ IF config_data.auto_discovery
         THEN /\ attempts' = Append(attempts, "discovery")
              /\ \E ok \in BOOLEAN :
                   boot_pc' = IF ok /\ CanConnect(config_data.interface)
                                THEN "initialized" ELSE "connect_error"
         ELSE /\ boot_pc' = "initialized"
              /\ UNCHANGED attempts
    /\ UNCHANGED <<connected, connection, wire, config_data, conn_pc, init_pos,
                   conn_last>>
    /\ BootFrame

\* the command lines of _send_init_commands
InitCommand(kind) == [kind |-> kind, group |-> 0, level |-> 0, id |-> 0]

\* _send_init_commands: "|||", "\{network}", "@{application}", "g"
InitSequence ==
    <<InitCommand("reset"), InitCommand("network"), InitCommand("application"),
      InitCommand("monitor")>>

\* connect up to its first await that suspends: it returns at once when
\* connected; else the transport is opened (or the attempt raises
\* ConnectionError), connected is set and the initialisation starts
ConnectBegin(ok) ==
    /\ conn_pc = "idle"
    /\ IF connected
         THEN /\ conn_last' = "returned"
              /\ UNCHANGED <<connected, connection, attempts, conn_pc, init_pos>>
         ELSE /\ attempts' = Append(attempts, "cbus")
              /\ init_pos' = 0
              /\ IF ok /\ CanConnect(config_data.interface)
                   THEN /\ connection' = Open
                        /\ connected' = TRUE
                        /\ conn_pc' = "init"
                        /\ conn_last' = "running"
                   ELSE /\ conn_last' = "raised"
                        /\ UNCHANGED <<connected, connection, conn_pc>>

\* CBusInterface.start calls connect
InterfaceStart ==
    /\ boot_pc = "initialized"
    /\ boot_pc' = "starting"
    /\ \E ok \in BOOLEAN : ConnectBegin(ok)
    /\ UNCHANGED <<wire, config_data>>
    /\ BootFrame

\* one _send_command of _send_init_commands writes its line; after the last
\* one connect returns
InitCommandSent ==
    /\ conn_pc = "init"
    /\ wire' = Written(InitSequence[init_pos + 1], "init", init_pos + 1)
    /\ init_pos' = init_pos + 1
    /\ IF init_pos + 1 = Len(InitSequence)
         THEN conn_pc' = "idle" /\ conn_last' = "ok"
         ELSE UNCHANGED <<conn_pc, conn_last>>
    /\ UNCHANGED <<connected, connection, boot_pc, config_data, attempts>>
    /\ BootFrame

\* one _send_command of _send_init_commands raises (write or drain fails, the
\* line may or may not have left): connect logs the error and raises it
InitCommandError ==
    /\ conn_pc = "init"
    /\ \E left \in BOOLEAN :
         wire' = IF left THEN Written(InitSequence[init_pos + 1], "init", init_pos + 1)
                         ELSE wire
    /\ conn_pc' = "idle"
    /\ conn_last' = "raised"
    /\ UNCHANGED <<connected, connection, boot_pc, config_data, attempts, init_pos>>
    /\ BootFrame

\* a start that creates the loops before connect has returned
TasksCreatedEarly(pc) == pc \in {"starting", "started"}

\* start creates the monitoring and the command task after connect
TasksCreated(pc) == pc = "started"

\* connect has returned or raised in start: the tasks are created, or start
\* raises
StartReturns ==
    /\ boot_pc = "starting"
    /\ conn_pc = "idle"
    /\ boot_pc' = IF conn_last = "raised" THEN "start_error" ELSE "started"
    /\ UNCHANGED <<connected, connection, wire, config_data, attempts, conn_pc,
                   init_pos, conn_last>>
    /\ BootFrame

\* the finally of run after start has raised: stop calls disconnect, which
\* closes the transport of a connected interface
RunFinally ==
    /\ boot_pc = "start_error"
    /\ boot_pc' = "stopped"
    /\ IF connected
         THEN \E closed \in BOOLEAN : Disconnect(closed)
         ELSE UNCHANGED <<connected, connection>>
    /\ UNCHANGED <<wire, config_data, attempts, conn_pc, init_pos, conn_last>>
    /\ BootFrame

\* ------------------------------------- Home Assistant light (cbus_lights)
\* int((brightness / 255) * 100): the float product truncated towards zero,
\* which for every brightness in 0..255 is the integer quotient
HaToCbusPercent(brightness) == (brightness * 100) \div MaxByte

\* async_turn_on: with a brightness the percentage goes to the ramp topic,
\* without one "ON" goes to the command topic
AsyncTurnOn(kwargs) ==
    /\ ha_call' = IF kwargs # None
                    THEN [op |-> "turn_on", brightness |-> Head(kwargs),
                          topic |-> "ramp", percent |-> HaToCbusPercent(Head(kwargs))]
                    ELSE [op |-> "turn_on", brightness |-> MaxByte,
                          topic |-> "switch", percent |-> -1]
    /\ UNCHANGED <<now, device_states, state_lock, sync_conflicts, command_queue, rx,
                   rx_count, monVars, hubVars, syncVars, readerVars, sim_count,
                   lastOp, last_update, orderVars, loopVars, codec, mqttVars,
                   ifVars, faultVars, stopVars, bootVars, delivered, consumed>>

\* ------------------------------------------------------- specifications
\* history of the order of hub commands, bus writes and bus reports:
\* hub_id[g] the newest hub command for g, written_id[g] the newest one the
\* command loop has written, applied[g] the last bus report applied for g
TrackOrder ==
    /\ hub_id' = IF hub_count' # hub_count
                   THEN [hub_id EXCEPT ![command_queue'[Len(command_queue')].group] = hub_count']
                   ELSE hub_id
    /\ written_id' = IF Len(command_queue') < Len(command_queue)
                       THEN [written_id EXCEPT ![Head(command_queue).group] =
                                                   Head(command_queue).id]
                       ELSE written_id
    /\ applied' = IF lastOp'.op = "bus"
                    THEN [applied EXCEPT ![lastOp'.group] =
                                             [tag |-> lastOp'.tag, level |-> lastOp'.level]]
                    ELSE applied
    /\ UNCHANGED <<loopVars, codec, sysVars>>

NoTrack == UNCHANGED <<orderVars, loopVars, codec, sysVars>>

\* history of the lines: delivered gets every line the transport delivers,
\* consumed every event as _update_device_state has stored it
TrackLines ==
    /\ delivered' = IF rx_count' # rx_count
                      THEN Append(delivered, rx'[Len(rx')])
                      ELSE delivered
    /\ consumed' = IF lastOp'.op = "bus" /\ lastOp' # lastOp
                     THEN Append(consumed,
                                 [group |-> lastOp'.group,
                                  level |-> device_states'[lastOp'.group].level,
                                  tag |-> lastOp'.tag])
                     ELSE consumed
    /\ UNCHANGED <<orderVars, loopVars, codec, mqttVars, ifVars, faultVars,
                   stopVars, bootVars, ha_call>>

\* the live bridge: the bus, the monitoring loop, the command loop and the
\* message listener
Next ==
    \/ Tick /\ NoTrack
    \/ \E g \in Groups, l \in Levels : BusReport(g, l) /\ NoTrack
    \/ MonRead /\ NoTrack
    \/ MonGranted /\ NoTrack
    \/ MonPublishDone /\ NoTrack
    \/ CommandLoop /\ NoTrack
    \/ \E g \in Groups, l \in Levels : HandleMqttCommand(g, l) /\ NoTrack
    \/ HubGrantedMark /\ NoTrack
    \/ HubGrantedUpdate /\ NoTrack

Spec == Init /\ [][Next]_vars

\* the live bridge with the order history
NextOrder ==
    \/ Tick /\ TrackOrder
    \/ \E g \in Groups, l \in Levels : BusReport(g, l) /\ TrackOrder
    \/ MonRead /\ TrackOrder
    \/ MonGranted /\ TrackOrder
    \/ MonPublishDone /\ TrackOrder
    \/ CommandLoop /\ TrackOrder
    \/ \E g \in Groups, l \in Levels : HandleMqttCommand(g, l) /\ TrackOrder
    \/ HubGrantedMark /\ TrackOrder
    \/ HubGrantedUpdate /\ TrackOrder

SpecOrder == Init /\ [][NextOrder]_vars

\* the live bridge and a caller of get_device_state / get_all_states
NextRead ==
    \/ Tick /\ NoTrack
    \/ \E g \in Groups, l \in Levels : BusReport(g, l) /\ NoTrack
    \/ MonRead /\ NoTrack
    \/ MonGranted /\ NoTrack
    \/ MonPublishDone /\ NoTrack
    \/ CommandLoop /\ NoTrack
    \/ \E g \in Groups, l \in Levels : HandleMqttCommand(g, l) /\ NoTrack
    \/ HubGrantedMark /\ NoTrack
    \/ HubGrantedUpdate /\ NoTrack
    \/ \E req \in {0} \cup Groups : GetStates(req) /\ NoTrack
    \/ ReaderGranted /\ NoTrack

SpecRead == Init /\ [][NextRead]_vars

\* the live bridge, the conflict check and a test that plants lingering
\* pending_mqtt_update flags
NextSim ==
    \/ Tick /\ NoTrack
    \/ \E g \in Groups, l \in Levels : BusReport(g, l) /\ NoTrack
    \/ MonRead /\ NoTrack
    \/ MonGranted /\ NoTrack
    \/ MonPublishDone /\ NoTrack
    \/ CommandLoop /\ NoTrack
    \/ \E g \in Groups, l \in Levels : HandleMqttCommand(g, l) /\ NoTrack
    \/ HubGrantedMark /\ NoTrack
    \/ HubGrantedUpdate /\ NoTrack
    \/ SyncTick /\ NoTrack
    \/ SyncGranted /\ NoTrack
    \/ SyncPublishDone /\ NoTrack
    \/ \E g \in Groups : SimulatePendingMqtt(g) /\ NoTrack

SpecSim == Init /\ [][NextSim]_vars

\* the conflict scenario: the live bridge with two hub commands, the conflict
\* check, a test that plants a lingering pending_mqtt_update, and the order
\* history (applied[g] is the last bus report applied for g)
NextConflict ==
    \/ \E g \in Groups, l \in Levels : BusReport(g, l) /\ TrackOrder
    \/ MonRead /\ TrackOrder
    \/ MonGranted /\ TrackOrder
    \/ MonPublishDone /\ TrackOrder
    \/ CommandLoop /\ TrackOrder
    \/ \E g \in Groups, l \in Levels : HubCommand(g, l, MaxScenarioCmds) /\ TrackOrder
    \/ HubGrantedMark /\ TrackOrder
    \/ HubGrantedUpdate /\ TrackOrder
    \/ SyncTick /\ TrackOrder
    \/ SyncGranted /\ TrackOrder
    \/ SyncPublishDone /\ TrackOrder
    \/ \E g \in Groups : SimulatePendingMqtt(g) /\ TrackOrder

SpecConflict == Init /\ [][NextConflict]_vars

\* the bus, the monitoring loop and the message listener with the clock and
\* the cleanup loop
CleanupClockSteps == {1, MaxStateAge}

NextCleanup ==
    \/ \E d \in CleanupClockSteps : Elapse(d)
    \/ \E g \in Groups, l \in Levels : BusReport(g, l) /\ NoTrack
    \/ MonRead /\ NoTrack
    \/ MonGranted /\ NoTrack
    \/ MonPublishDone /\ NoTrack
    \/ \E g \in Groups, l \in Levels : HandleMqttCommand(g, l) /\ NoTrack
    \/ HubGrantedMark /\ NoTrack
    \/ HubGrantedUpdate /\ NoTrack
    \/ CleanupTick
    \/ CleanupGranted

SpecCleanup == Init /\ [][NextCleanup]_vars

\* the bus and the monitoring loop with the clock, the poll loop and the
\* cleanup loop; the queries stay on the command queue
PollClockSteps == {1, PollInterval, MaxStateAge}

NextPoll ==
    \/ \E d \in PollClockSteps : Elapse(d)
    \/ \E g \in Groups, l \in Levels : BusReport(g, l) /\ NoTrack
    \/ MonRead /\ NoTrack
    \/ MonGranted /\ NoTrack
    \/ MonPublishDone /\ NoTrack
    \/ PollTick
    \/ PollStep
    \/ CleanupTick
    \/ CleanupGranted

SpecPoll == Init /\ [][NextPoll]_vars

\* the monitoring loop reading raw lines, and the message listener
NextDecode ==
    \/ \E line \in DecoderLines : ReadLine(line)
    \/ MonGranted /\ NoTrack
    \/ MonPublishDone /\ NoTrack
    \/ \E g \in Groups, l \in Levels : HandleMqttCommand(g, l) /\ NoTrack
    \/ HubGrantedMark /\ NoTrack
    \/ HubGrantedUpdate /\ NoTrack

SpecDecode == Init /\ [][NextDecode]_vars

\* the decoder and the encoders applied to every byte value
NextCodec ==
    \/ codec = NoCodec /\ \E g \in Bytes, l \in Bytes : Decode(g, l)
    \/ codec = NoCodec /\ \E a \in ByteSamples, g \in Bytes, l \in ByteSamples :
                              EncodeSet(a, g, l)
    \/ codec = NoCodec /\ \E a \in ByteSamples, l \in ByteSamples, r \in Bytes :
                              EncodeRamp(a, 21, l, r)
    \/ CommandLoop /\ NoTrack

SpecCodec == Init /\ [][NextCodec]_vars

\* command messages of the hub, next to the bus monitor
NextCommand ==
    \/ codec = NoCodec /\ \E t \in TopicGroupTexts, n \in NumberPayloads :
                              NumberCommand(t, n)
    \/ codec = NoCodec /\ \E t \in TopicGroupTexts, w \in WordPayloads :
                              WordCommand(t, w)
    \/ codec = NoCodec /\ \E t \in TopicGroupTexts, m \in JsonPayloads :
                              JsonCommand(t, m)
    \/ codec = NoCodec /\ \E t \in TopicGroupTexts, x \in OtherPayloads :
                              TextCommand(t, x)
    \/ HubGrantedMark /\ NoTrack
    \/ HubGrantedUpdate /\ NoTrack
    \/ \E l \in Levels : BusReport(1, l) /\ NoTrack
    \/ MonRead /\ NoTrack
    \/ MonGranted /\ NoTrack
    \/ MonPublishDone /\ NoTrack

SpecCommand == Init /\ [][NextCommand]_vars

\* start-up of the MQTT bridge next to the running bus monitor, which
\* announces and publishes; commands of the hub
NextAnnounce ==
    \/ \E g \in Groups, l \in Levels : BusReport(g, l) /\ NoTrack
    \/ MonRead /\ WithPublish /\ UNCHANGED <<orderVars, loopVars, codec, restVars>>
    \/ MonGranted /\ WithPublish /\ UNCHANGED <<orderVars, loopVars, codec, restVars>>
    \/ PubQueryReturn
    \/ PubConfigDone
    \/ PubStateDone
    \/ PubLevelDone
    \/ PubReturn
    \/ MqttConnect
    \/ MqttSubscribed
    \/ MqttDiscoveryStep
    \/ \E g \in Groups, l \in Levels : HandleMqttCommand(g, l) /\ NoTrack
    \/ HubGrantedMark /\ NoTrack
    \/ HubGrantedUpdate /\ NoTrack
    \/ CommandLoop /\ NoTrack

SpecAnnounce == Init /\ [][NextAnnounce]_vars

\* the same with the poll loop: everything that puts commands on a queue
NextProbe ==
    \/ ticks < ProbeTicks /\ Elapse(PollInterval)
    \/ PollTick
    \/ PollStep
    \/ \E g \in Groups : BusReport(g, MaxLevel) /\ NoTrack
    \/ MonRead /\ WithPublish /\ UNCHANGED <<orderVars, loopVars, codec, restVars>>
    \/ MonGranted /\ WithPublish /\ UNCHANGED <<orderVars, loopVars, codec, restVars>>
    \/ PubQueryReturn
    \/ PubConfigDone
    \/ PubStateDone
    \/ PubLevelDone
    \/ PubReturn
    \/ MqttConnect
    \/ MqttSubscribed
    \/ MqttDiscoveryStep
    \/ \E g \in Groups : HandleMqttCommand(g, MaxLevel) /\ NoTrack
    \/ HubGrantedMark /\ NoTrack
    \/ HubGrantedUpdate /\ NoTrack

SpecProbe == Init /\ [][NextProbe]_vars

\* the transport: the message listener, the poll loop and ping as the
\* callers, and the command loop, with failing writes and failing queries
NextWire ==
    \/ \E g \in Groups : HubCommand(g, MaxLevel, MaxScenarioCmds) /\ NoTrack
    \/ CommandLoopSend
    \/ CommandLoopError
    \/ CommandLoopWake
    \/ Ping
    \/ Elapse(PollInterval)
    \/ PollTick
    \/ PollStep
    \/ PollTickError
    \/ PollStepError

SpecWire == Init /\ [][NextWire]_vars

\* the bridge from start to stop: every loop runs until its task is
\* cancelled; the bus goes on reporting.  The bus reports, the hub commands
\* and the clock steps come once MQTTBridge.start has returned
NextStop ==
    \/ mqtt_pc = "done" /\ BusReport(1, MaxLevel) /\ NoTrack
    \/ Alive("mon") /\ MonRead /\ NoTrack
    \/ Alive("mon") /\ MonGranted /\ NoTrack
    \/ Alive("mon") /\ MonPublishDone /\ NoTrack
    \/ Alive("cmd") /\ CommandLoopSend
    \/ Alive("hub") /\ mqtt_pc = "done" /\ HandleMqttCommand(1, MaxLevel) /\ NoTrack
    \/ Alive("hub") /\ HubGrantedMark /\ NoTrack
    \/ Alive("hub") /\ HubGrantedUpdate /\ NoTrack
    \/ mqtt_pc = "done" /\ ticks < ProbeTicks /\ Elapse(CleanupSleep)
    \/ Alive("poll") /\ PollTick
    \/ Alive("poll") /\ PollStep
    \/ Alive("sync") /\ SyncTick /\ NoTrack
    \/ Alive("sync") /\ SyncGranted /\ NoTrack
    \/ Alive("cleanup") /\ CleanupTick
    \/ Alive("cleanup") /\ CleanupGranted
    \/ Alive("heartbeat") /\ mqtt_pc = "done" /\ Heartbeat
    \/ MqttConnect
    \/ MqttSubscribed
    \/ MqttDiscoveryStep
    \/ BridgeStop
    \/ MqttExited
    \/ DisconnectEnd
    \/ TasksCancelled

SpecStop == Init /\ [][NextStop]_vars

\* the loops of the bridge with exceptions raised inside their iterations,
\* from start to a stop that comes at the end of the run, after the errors
NextFaults ==
    \/ mqtt_pc = "done" /\ BusReport(1, MaxLevel) /\ NoTrack
    \/ Alive("mon") /\ MonRead /\ NoTrack
    \/ Alive("mon") /\ MonGranted /\ NoTrack
    \/ Alive("mon") /\ MonPublishDone /\ NoTrack
    \/ Alive("hub") /\ mqtt_pc = "done" /\ HandleMqttCommand(1, MaxLevel) /\ NoTrack
    \/ Alive("hub") /\ HubGrantedMark /\ NoTrack
    \/ Alive("hub") /\ HubGrantedUpdate /\ NoTrack
    \/ mqtt_pc = "done" /\ ticks < FaultTicks
                         /\ Elapse(CleanupSleep + CleanupErrorSleep)
    \/ Alive("poll") /\ PollTick
    \/ Alive("poll") /\ PollStep
    \/ Alive("sync") /\ SyncTick /\ NoTrack
    \/ Alive("sync") /\ SyncGranted /\ NoTrack
    \/ Alive("cleanup") /\ CleanupTick
    \/ Alive("cleanup") /\ CleanupGranted
    \/ MonError
    \/ HubError
    \/ PollError
    \/ SyncError
    \/ CleanupError
    \/ MqttConnect
    \/ MqttSubscribed
    \/ MqttDiscoveryStep
    \/ ticks = FaultTicks /\ (\A t \in Loops : raised[t] = MaxFaults) /\ BridgeStop
    \/ MqttExited
    \/ DisconnectEnd
    \/ TasksCancelled

SpecFaults == Init /\ [][NextFaults]_vars

\* the DeviceManager: get_device on every content of the two maps, and
\* _create_device_from_config on device configurations that name a template
NextDevices ==
    \/ dm_call = NoCall
         /\ \E devices \in DeviceMaps(<<"Lounge">>),
               discovered \in DeviceMaps(<<"Discovered">>),
               group \in 1..(MaxGroup + 1) :
               GetDeviceCall(devices, discovered, group)
    \/ dm_call = NoCall
         /\ \E name \in DOMAIN Templates, S \in SUBSET ConfigKeys :
               CreateDeviceCall(DeviceConfig(<<name>>, S))
    \/ dm_call = NoCall
         /\ \E devices \in DeviceMaps(<<"Lounge">>),
               discovered \in DeviceMaps(<<"Discovered">>),
               has_interface \in BOOLEAN, group \in 1..(MaxGroup + 1) :
               DiscoverDeviceCall(devices, discovered, has_interface, group)

SpecDevices == Init /\ [][NextDevices]_vars

\* the bridge from its construction: initialize, start of the interface, then
\* the loops, the bus, the start of the MQTT bridge and a hub command
NextBoot ==
    \/ boot_pc = "new" /\ \E c \in Configs : ConfigLoad(c)
    \/ DeviceManagerInitialize
    \/ InterfaceStart
    \/ InitCommandSent
    \/ InitCommandError
    \/ StartReturns
    \/ RunFinally
    \/ connection = Open /\ BusReport(1, MaxLevel) /\ NoTrack
    \/ TasksCreated(boot_pc) /\ MonRead /\ NoTrack
    \/ TasksCreated(boot_pc) /\ MonGranted /\ NoTrack
    \/ TasksCreated(boot_pc) /\ MonPublishDone /\ NoTrack
    \/ TasksCreated(boot_pc) /\ CommandLoopSend
    \/ boot_pc = "started" /\ MqttConnect
    \/ boot_pc = "started" /\ MqttSubscribed
    \/ boot_pc = "started" /\ MqttDiscoveryStep
    \/ mqtt_pc = "done" /\ HandleMqttCommand(1, MaxLevel) /\ NoTrack
    \/ HubGrantedMark /\ NoTrack
    \/ HubGrantedUpdate /\ NoTrack

SpecBoot == InitBoot /\ [][NextBoot]_vars

\* the live bridge and the conflict check, as the program runs them (the
\* check never reaches its publish)
NextSync ==
    \/ Tick /\ NoTrack
    \/ \E g \in Groups, l \in Levels : BusReport(g, l) /\ NoTrack
    \/ MonRead /\ NoTrack
    \/ MonGranted /\ NoTrack
    \/ MonPublishDone /\ NoTrack
    \/ CommandLoop /\ NoTrack
    \/ \E g \in Groups, l \in Levels : HandleMqttCommand(g, l) /\ NoTrack
    \/ HubGrantedMark /\ NoTrack
    \/ HubGrantedUpdate /\ NoTrack
    \/ SyncTick /\ NoTrack
    \/ SyncGranted /\ NoTrack

SpecSync == Init /\ [][NextSync]_vars

\* the monitoring loop with lines queueing on the transport, the message
\* listener competing for the lock, and the history of the lines
NextMonitor ==
    \/ \E g \in Groups, l \in Levels : BusLine(g, l) /\ TrackLines
    \/ MonRead /\ TrackLines
    \/ MonGranted /\ TrackLines
    \/ MonPublishDone /\ TrackLines
    \/ \E g \in Groups, l \in Levels : HandleMqttCommand(g, l) /\ TrackLines
    \/ HubGrantedMark /\ TrackLines
    \/ HubGrantedUpdate /\ TrackLines
    \/ CommandLoop /\ TrackLines

SpecMonitor == Init /\ [][NextMonitor]_vars

\* Home Assistant turns a light on, with every brightness or without one
NextLight ==
    \/ \E brightness \in 0..MaxByte : AsyncTurnOn(<<brightness>>)
    \/ AsyncTurnOn(None)

SpecLight == Init /\ [][NextLight]_vars

\* ================================================================ claims

\* C1: in every reachable state every DeviceState of the table has
\* state = (level > 0), fresh entries and the entries left by bus events
\* and hub commands included.
C1_OnIffLevelPositive ==
    \A g \in DOMAIN device_states :
        device_states[g].state = (device_states[g].level > 0)

\* a hub command has just switched a group on
C1_Witness ==
    /\ lastOp.op = "hub"
    /\ lastOp.level > 0
    /\ device_states[lastOp.group].state

\* C2: a bus event (g, L) always wins: afterwards the entry of g exists with
\* level L, last_source CBUS, pending_cbus_update false and
\* last_cbus_update = last_updated, and no other entry has changed.
C2_BusEventWins ==
    [][lastOp'.op = "bus" =>
         LET g == lastOp'.group
         IN  /\ DOMAIN device_states' = DOMAIN device_states \cup {g}
             /\ device_states'[g].level = lastOp'.level
             /\ device_states'[g].last_source = CBUS
             /\ ~device_states'[g].pending_cbus_update
             /\ device_states'[g].last_cbus_update = device_states'[g].last_updated
             /\ \A h \in DOMAIN device_states \ {g} :
                    device_states'[h] = device_states[h]]_vars

\* a bus event has overridden an optimistic hub value that was pending
C2_Witness ==
    /\ lastOp.op = "bus"
    /\ lastOp.tracked
    /\ lastOp.pre.last_source = MQTT
    /\ lastOp.pre.pending_cbus_update
    /\ lastOp.pre.level # lastOp.level

\* C3 (as claimed): after a bus event is applied for a group both pending
\* flags of that group are false, whatever they were before.
C3_BothPendingClear ==
    lastOp.op = "bus" =>
        /\ ~device_states[lastOp.group].pending_mqtt_update
        /\ ~device_states[lastOp.group].pending_cbus_update

\* C4 (as claimed): handle_mqtt_command(g, L) enqueues exactly one set-level
\* command for (g, L) and leaves an entry for g with level L, last_source
\* MQTT and pending_cbus_update true, for tracked and untracked g alike.
C4_HubCommandPending ==
    [][/\ hub_count' # hub_count =>
              LET c == IF hub_pc' = "idle" THEN lastOp' ELSE hub_cmd'
              IN  command_queue' =
                      Append(command_queue, SetGroupLevel(c.group, c.level, hub_count'))
       /\ hub_count' = hub_count => Len(command_queue') <= Len(command_queue)
       /\ lastOp'.op = "hub" =>
              /\ lastOp'.group \in DOMAIN device_states'
              /\ device_states'[lastOp'.group].level = lastOp'.level
              /\ device_states'[lastOp'.group].last_source = MQTT
              /\ device_states'[lastOp'.group].pending_cbus_update]_vars

\* C5: a bus event calls publish_state_update iff its level differs from
\* the stored level (or the on/off value differs); applying the level that
\* is already stored leaves level and on/off value as they were and
\* publishes nothing.
C5_PublishIffChanged ==
    [][lastOp'.op = "bus" =>
         LET g   == lastOp'.group
             old == GetOrCreate(device_states, g, now)[g]
             differs == \/ old.level # lastOp'.level
                        \/ old.state # (lastOp'.level > 0)
         IN  /\ lastOp'.pub <=> differs
             /\ (mon_pc' = "pub") <=> differs
             /\ ~differs => /\ device_states'[g].level = old.level
                            /\ device_states'[g].state = old.state]_vars

\* the same bus event has been applied a second time, silently
C5_Witness ==
    /\ lastOp.op = "bus"
    /\ lastOp.tracked
    /\ lastOp.pre.last_source = CBUS
    /\ lastOp.pre.level = lastOp.level
    /\ lastOp.level > 0
    /\ ~lastOp.pub
    /\ mon_pc = "read"

\* C6 (as claimed): when the newest hub command for g has been written to
\* the bus, the bus has then reported g at level L, and both the report and
\* the hub command have been processed to the end, the entry of g has level
\* L, last_source CBUS and pending_cbus_update false.
C6_BusIsFinalAuthority ==
    \A g \in DOMAIN device_states :
        ( /\ hub_id[g] > 0
          /\ applied[g].tag = hub_id[g]
          /\ hub_pc = "idle"
          /\ mon_pc = "read" )
        => /\ device_states[g].level = applied[g].level
           /\ device_states[g].last_source = CBUS
           /\ ~device_states[g].pending_cbus_update

\* C7 (as claimed): no bus event for group g is applied between the step of
\* handle_mqtt_command that sets pending_cbus_update for g and the step that
\* records the optimistic level for g.
C7_NoBusEventBetweenSteps ==
    ~ ( /\ lastOp.op = "bus"
        /\ hub_pc = "waitB"
        /\ hub_cmd.group = lastOp.group
        /\ lastOp.tracked )

\* C8: the level, on/off value, last_source and timestamps a reader sees
\* for a group, when get_device_state / get_all_states returns and at any
\* later moment through the returned value, are those of one completed
\* update of that group.
C8_NoPartialRecord ==
    /\ \A g \in reader_ret.keys :
           /\ g \in DOMAIN device_states
           /\ Proj(Visible(reader_ret)[g]) = last_update[g]
    /\ lastOp.op = "get" =>
           \A g \in reader_ret.keys : Proj(reader_ret.seen[g]) = last_update[g]

\* a reader that had to wait for the lock returns between the two critical
\* sections of a hub command for the group it reads
C8_Witness ==
    /\ lastOp.op = "get"
    /\ hub_pc = "waitB"
    /\ hub_cmd.group \in reader_ret.keys
    /\ device_states[hub_cmd.group].last_source = CBUS

\* C9 (as claimed): what is visible through a value returned by
\* get_device_state / get_all_states (level, on/off value, flags) stays what
\* it was when the call returned.
C9_ReturnedValueIsSnapshot ==
    \A g \in reader_ret.keys :
        Found(Visible(reader_ret)[g]) = Found(reader_ret.seen[g])

\* C10: one run of _check_sync_conflicts clears pending_mqtt_update, adds 1
\* to sync_conflicts and publishes the current state once for every group
\* that had both pending flags set; it changes and publishes nothing for
\* any other group and never changes a level.
C10_ConflictCheckRun ==
    lastOp.op = "sync" =>
        LET pre  == lastOp.table
            both == {g \in DOMAIN pre : /\ pre[g].pending_mqtt_update
                                        /\ pre[g].pending_cbus_update}
            pubsOf(g) == {i \in 1..Len(lastOp.pubs) : lastOp.pubs[i].group = g}
        IN  /\ DOMAIN device_states = DOMAIN pre
            /\ sync_conflicts = lastOp.conflicts + Cardinality(both)
            /\ \A g \in DOMAIN pre :
                   /\ device_states[g].level = pre[g].level
                   /\ IF g \in both
                        THEN /\ device_states[g] =
                                    [pre[g] EXCEPT !.pending_mqtt_update = FALSE]
                             /\ Cardinality(pubsOf(g)) = 1
                             /\ \A i \in pubsOf(g) :
                                    /\ lastOp.pubs[i].level = pre[g].level
                                    /\ lastOp.pubs[i].state = pre[g].state
                        ELSE /\ device_states[g] = pre[g]
                             /\ pubsOf(g) = {}

\* a run of the check has resolved a conflict while another tracked group
\* had no conflict
C10_Witness ==
    /\ lastOp.op = "sync"
    /\ \E g \in DOMAIN lastOp.table :
           /\ lastOp.table[g].pending_mqtt_update
           /\ lastOp.table[g].pending_cbus_update
    /\ \E g \in DOMAIN lastOp.table : ~lastOp.table[g].pending_mqtt_update

\* C11 (as claimed): after a bus report for g, two hub commands for g with
\* different levels that the bus has not confirmed, and a lingering
\* pending_mqtt_update, a run of the conflict check leaves the level of g
\* equal to the last bus-confirmed level, pending_mqtt_update false and
\* sync_conflicts one higher.
C11_ConflictKeepsBusValue ==
    \A g \in Groups :
        ( /\ lastOp.op = "sync"
          /\ g \in DOMAIN lastOp.table
          /\ lastOp.table[g].pending_mqtt_update
          /\ lastOp.table[g].pending_cbus_update
          /\ applied[g].level > 0
          /\ hub_pc = "idle"
          /\ Len(command_queue) = 2
          /\ command_queue[1].group = g
          /\ command_queue[2].group = g
          /\ command_queue[1].level # command_queue[2].level )
        => /\ device_states[g].level = applied[g].level
           /\ ~device_states[g].pending_mqtt_update
           /\ sync_conflicts = lastOp.conflicts + 1

\* C12 (as claimed): a poll tick polls exactly when no tracked device has a
\* bus update within the last PollInterval seconds or some tracked device has
\* had no update for more than 2 * PollInterval seconds; when it polls it
\* enqueues one query per group tracked at the tick, otherwise none.
C12_PollDecision ==
    poll_log.done =>
        LET T == poll_log.table
            t == poll_log.at
            recent == \E g \in DOMAIN T : t - T[g].last_cbus_update < PollInterval
            stale  == \E g \in DOMAIN T : t - T[g].last_updated > 2 * PollInterval
            sent   == {poll_log.sent[i] : i \in 1..Len(poll_log.sent)}
        IN  /\ poll_log.polled <=> (~recent \/ stale)
            /\ poll_log.polled => /\ sent = DOMAIN T
                                  /\ Len(poll_log.sent) = Cardinality(DOMAIN T)
            /\ ~poll_log.polled => poll_log.sent = <<>>

\* C13 (as claimed): a poll tick enqueues no query for a tracked device that
\* had a bus event within the last PollInterval seconds, whatever the
\* freshness of the other devices.
C13_NoQueryForRecentDevice ==
    \A i \in 1..Len(poll_log.sent) :
        LET g == poll_log.sent[i]
        IN  g \in DOMAIN poll_log.table =>
                ~ (poll_log.at - poll_log.table[g].last_cbus_update < PollInterval)

\* C14: after a cleanup tick the table holds exactly the entries whose
\* last_updated was at most MaxStateAge seconds old when the tick ran, each
\* with unchanged contents; every older entry is gone.
C14_CleanupEvictsOld ==
    [][lastOp'.op = "cleanup" =>
         LET kept == {g \in DOMAIN device_states :
                         now - device_states[g].last_updated <= MaxStateAge}
         IN  /\ DOMAIN device_states' = kept
             /\ \A g \in kept : device_states'[g] = device_states[g]
             /\ lastOp'.table = device_states]_vars

\* a cleanup tick has evicted one entry and kept another whose age was
\* exactly MaxStateAge
C14_Witness ==
    /\ lastOp.op = "cleanup"
    /\ \E g \in DOMAIN lastOp.table : g \notin DOMAIN device_states
    /\ \E g \in DOMAIN device_states :
           /\ g \in DOMAIN lastOp.table
           /\ now - device_states[g].last_updated = MaxStateAge

C16_DecodeIffWellFormed ==
    [][rx_count' # rx_count /\ codec'.op = "line" =>
         LET line == codec'.text
             byte(i) == 16 * DigitValue(line[i]) + DigitValue(line[i + 1])
             wellFormed == /\ Head(line) = "g"
                           /\ Len(line) >= 7
                           /\ \A i \in 2..7 : DigitValue(line[i]) >= 0
                           /\ byte(2) = Application
         IN  /\ (codec'.events # <<>>) <=> wellFormed
             /\ wellFormed =>
                    codec'.events = << [type |-> "group_state",
                                        application |-> Application,
                                        group |-> byte(4), level |-> byte(6),
                                        state |-> (byte(6) > 0)] >>
             /\ ~wellFormed => UNCHANGED device_states]_vars

\* C17 (as claimed): a line that is too short, has a non-hex character in
\* its bytes, names another application or starts with another character
\* delivers no event and leaves the state table unchanged, and the read
\* loop is ready for the next line.
C17_DecodeErrorsLocal ==
    [][rx_count' # rx_count /\ codec'.op = "line" =>
         LET line == codec'.text
             byte(i) == 16 * DigitValue(line[i]) + DigitValue(line[i + 1])
             malformed == \/ Head(line) # "g"
                          \/ Len(line) < 7
                          \/ \E i \in 2..7 : DigitValue(line[i]) < 0
                          \/ byte(2) # Application
         IN  malformed => /\ codec'.events = <<>>
                          /\ UNCHANGED device_states
                          /\ mon_pc' = "read"]_vars

\* C18: for every group and level in 0..255, decoding the line "g" + AA + GG
\* + LL built from the configured application, the group and the level
\* yields one event with that group, that level and state = (level > 0).
C18_RoundTrip ==
    codec.op = "decode" =>
        /\ Len(codec.text) = 7
        /\ codec.events = << [type |-> "group_state", application |-> Application,
                              group |-> codec.args[1], level |-> codec.args[2],
                              state |-> (codec.args[2] > 0)] >>

\* the line "g381564" has been decoded to group 21, level 100, on
C18_Witness ==
    /\ codec.op = "decode"
    /\ codec.text = <<"g", "3", "8", "1", "5", "6", "4">>
    /\ codec.args = <<21, 100>>
    /\ codec.events # <<>>
    /\ codec.events[1].state

\* C19: set_group_level enqueues the 7 characters "@" AA GG LL, every byte
\* as two upper-case zero-padded hex digits; ramp_group with a ramp time in
\* 1..255 appends one more such byte and with ramp time 0 enqueues the
\* command of set_group_level.
C19_Encoding ==
    codec.op \in {"set", "ramp"} =>
        LET two(n) == <<HexUpper[(n \div 16) + 1], HexUpper[(n % 16) + 1]>>
            a == codec.args[1]
            g == codec.args[2]
            l == codec.args[3]
            plain == <<"@">> \o two(a) \o two(g) \o two(l)
        IN  /\ Len(plain) = 7
            /\ codec.op = "set" => codec.text = plain
            /\ codec.op = "ramp" =>
                   IF codec.args[4] = 0
                     THEN /\ codec.text = plain
                          /\ codec.text = SetGroupLevelText(a, g, l)
                     ELSE /\ codec.text = plain \o two(codec.args[4])
                          /\ Len(codec.text) = 9
            /\ command_queue # <<>> => command_queue = <<codec.text>>

\* ramp_group(21, 0, 15) of application 56 has enqueued "@3815000F"
C19_Witness ==
    /\ codec.op = "ramp"
    /\ codec.args = <<Application, 21, 0, 15>>
    /\ command_queue = << <<"@", "3", "8", "1", "5", "0", "0", "0", "F">> >>

\* C20: for a command message addressed to group g the level forwarded to
\* handle_mqtt_command is 255 for the word "on", 0 for the word "off", n
\* for a decimal payload n with 0 <= n <= 255 and the value of the level
\* field for a JSON payload; the group forwarded is the group of the topic.
C20_CommandParsing ==
    [][ (codec = NoCodec /\ codec'.op \in {"word", "number", "json"}) =>
        LET kind    == codec'.op
            v       == codec'.args[2]
            inCase  == /\ \E g \in Groups : codec'.args[1] = DecimalText(g)
                       /\ \/ kind = "word" /\ v \in { <<"o", "n">>, <<"o", "f", "f">> }
                          \/ kind = "number" /\ v \in 0..MaxByte
                          \/ kind = "json" /\ \E i \in 1..Len(v) : v[i].name = LevelKey
            group   == CHOOSE g \in Groups : codec'.args[1] = DecimalText(g)
            level   == IF kind = "word" THEN (IF v = <<"o", "n">> THEN MaxByte ELSE 0)
                       ELSE IF kind = "number" THEN v
                       ELSE v[CHOOSE i \in 1..Len(v) :
                                 /\ v[i].name = LevelKey
                                 /\ \A k \in 1..Len(v) : v[k].name = LevelKey => k <= i].value
        IN  inCase =>
              /\ codec'.events = << [group |-> group, level |-> level] >>
              /\ command_queue' = Append(command_queue,
                                         SetGroupLevel(group, level, hub_count + 1))
              /\ \/ hub_cmd' = [group |-> group, level |-> level]
                 \/ lastOp'.op = "hub" /\ lastOp'.group = group /\ lastOp'.level = level
      ]_vars

\* C21: after any sequence of bus events and command messages of the hub
\* every entry of the state table has its group and its level in 0..255,
\* and every level forwarded to handle_mqtt_command is in 0..255.
C21_RangeInvariant ==
    /\ \A g \in DOMAIN device_states :
          /\ g \in 0..MaxByte
          /\ device_states[g].group \in 0..MaxByte
          /\ device_states[g].level \in 0..MaxByte
    /\ \A i \in 1..Len(codec.events) :
          codec.op \in {"word", "number", "json", "text"} =>
              codec.events[i].level \in 0..MaxByte

\* C22: no state message of a group is published before the descriptor of
\* that group's device has been published.
C22_AnnounceBeforeState ==
    \A i \in 1..Len(published) :
        published[i].kind \in {"state", "level"} =>
            \E j \in 1..(i - 1) : published[j] = Message("config", published[i].group)

\* C23: every set-level command put on a command queue is put there by a
\* hub command; handling a bus event, discovering or announcing a device
\* and polling put no set-level command on any queue.
C23_SetLevelOnlyFromHub ==
    [][ LET Added(old, new) ==
                IF Len(new) > Len(old) THEN SubSeq(new, Len(old) + 1, Len(new))
                ELSE <<>>
            live == Added(command_queue, command_queue')
            dm   == Added(dm_queue, dm_queue')
        IN  /\ \A i \in 1..Len(live) :
                  live[i].kind = "set" =>
                      /\ hub_count' = hub_count + 1
                      /\ live[i].id = hub_count'
                      /\ lastOp'.op \in {"hub", "mark", "none"}
            /\ \A i \in 1..Len(dm) : dm[i].kind # "set"
      ]_vars

\* a device has been discovered and announced after its query, a poll pass
\* has put a query on the queue, and a hub command its set-level command
C23_Witness ==
    /\ discovered_devices # {}
    /\ dm_queue # <<>>
    /\ \E i \in 1..Len(published) : published[i].kind = "config"
    /\ poll_log.sent # <<>>
    /\ \E i \in 1..Len(command_queue) : command_queue[i].kind = "set"
    /\ \E i \in 1..Len(command_queue) : command_queue[i].kind = "get"

\* C24: single writer.  Every line that reaches the transport is written by
\* the command loop and is the oldest command of the queue, which the same
\* step takes off the queue (so lines leave in the order of send_command and
\* no command is written twice); a caller only appends to the queue and
\* writes nothing itself.
C24_SingleWriter ==
    [][/\ wire' # wire =>
            /\ command_queue # <<>>
            /\ wire' = Append(wire, [cmd |-> Head(command_queue), by |-> "loop",
                                     n |-> cmd_taken'])
            /\ command_queue' = Tail(command_queue)
       /\ Len(command_queue') > Len(command_queue) =>
            /\ wire' = wire
            /\ SubSeq(command_queue', 1, Len(command_queue)) = command_queue
            /\ Len(command_queue') = Len(command_queue) + 1]_vars

\* C25: no retry queue.  A step in which a write fails takes the command off
\* the queue and puts nothing back, and the command loop sleeps and goes on;
\* a dropped command is never written after its failure.  A step in which
\* the query for one group fails goes on with the next group of the pass
\* (or ends the pass normally after the last group) without counting a poll
\* error, and a sleeping poll loop always has its next tick scheduled.
C25_NoRetryQueue ==
    [][/\ Len(dropped') > Len(dropped) =>
            /\ command_queue' = Tail(command_queue)
            /\ cmd_pc' = "sleep"
       /\ \A i \in 1..Len(dropped') : \A j \in 1..Len(wire') :
            (j > dropped'[i].at /\ dropped'[i].cmd.kind = "set")
                => wire'[j].cmd # dropped'[i].cmd
       /\ cmd_pc' \in {"get", "sleep"}
       /\ Len(query_failed') > Len(query_failed) =>
            LET g == query_failed'[Len(query_failed')].group
                rest == {h \in DOMAIN device_states : h > g}
            IN  /\ poll_errors' = poll_errors
                /\ IF rest = {}
                     THEN /\ poll_pc' = "sleep"
                          /\ poll_wake' = now + PollInterval
                          /\ last_poll_time' = now
                          /\ command_queue' = command_queue
                     ELSE /\ poll_pc' = "pass"
                          /\ poll_pos' = Min(rest)
                          /\ command_queue' = Append(command_queue, Query(Min(rest)))
       /\ poll_pc' = "sleep" => poll_wake' <= now' + PollInterval + PollErrorSleep]_vars

\* a write has failed and a command queued after it has been written; the
\* query for group 1 has failed, a query for group 2 is on the queue, and a
\* later poll tick has run
C25_Witness ==
    /\ dropped # <<>>
    /\ \E j \in 1..Len(wire) : wire[j].by = "loop" /\ wire[j].n > dropped[1].n
    /\ query_failed # <<>>
    /\ query_failed[1].group = 1
    /\ \E j \in 1..Len(command_queue) : command_queue[j] = Query(2)
    /\ poll_log.polled /\ poll_log.at > query_failed[1].at

\* C26: when disconnect has returned, connected is false and the connection
\* handle is cleared, also when closing the socket has failed.
C26_DisconnectClears ==
    stop_pc = "stopped" => ~connected /\ connection = Closed

\* C27: once stop has completed every task has been cancelled, connected is
\* false on both sides, and from then on no step changes the state table,
\* writes to the bus, publishes or takes a command off the queue; once the
\* cancelled tasks have ended no loop moves again.
C27_StopCancelsAll ==
    [][/\ stop_pc' = "stopped" =>
            /\ cancelled' = Tasks
            /\ ~mqtt_connected'
            /\ ~connected' /\ connection' = Closed
       /\ stop_pc = "stopped" =>
            /\ device_states' = device_states
            /\ wire' = wire
            /\ published' = published
            /\ Len(command_queue') >= Len(command_queue)
            /\ cmd_taken' = cmd_taken
       /\ (stop_pc = "stopped" /\ ended = Tasks) =>
            UNCHANGED <<mon_pc, hub_pc, sync_pc, poll_pc, cleanup_pc, cmd_pc,
                        state_lock, command_queue>>]_vars

\* C28: an exception inside an iteration of the bus read loop, the message
\* listener, the poll, conflict-check or cleanup loop leaves that loop
\* waiting for its next iteration and leaves every other loop where it was;
\* no loop ever ends on an exception, and a loop has ended only if its task
\* was cancelled.
C28_LoopsSurviveErrors ==
    [][LET pc == [t \in Loops |->
                     CASE t = "mon" -> mon_pc
                       [] t = "hub" -> hub_pc
                       [] t = "poll" -> poll_pc
                       [] t = "sync" -> sync_pc
                       [] t = "cleanup" -> cleanup_pc]
           pcNext == [t \in Loops |->
                     CASE t = "mon" -> mon_pc'
                       [] t = "hub" -> hub_pc'
                       [] t = "poll" -> poll_pc'
                       [] t = "sync" -> sync_pc'
                       [] t = "cleanup" -> cleanup_pc']
           waiting == [t \in Loops |->
                     CASE t = "mon" -> "read"
                       [] t = "hub" -> "idle"
                       [] t = "poll" -> "sleep"
                       [] t = "sync" -> "idle"
                       [] t = "cleanup" -> "sleep"]
       IN  \A t \in Loops :
              /\ raised'[t] > raised[t] =>
                    /\ pcNext[t] = waiting[t]
                    /\ \A u \in Loops \ {t} : pcNext[u] = pc[u]
                    /\ cancelled' = cancelled
              /\ pcNext[t] # "ended"
              /\ pcNext[t] = "cancelled" => t \in cancelled']_vars

\* every loop has raised once and none has ended; the poll loop has since
\* completed a tick without error and the cleanup has just run
C28_Witness ==
    /\ \A t \in Loops : raised[t] > 0
    /\ cancelled = {}
    /\ mon_pc = "read" /\ hub_pc = "idle" /\ sync_pc = "idle"
    /\ poll_log.polled /\ poll_log.done /\ ~poll_log.failed
    /\ lastOp.op = "cleanup"

\* C29: get_device returns the configured Device of the group when there is
\* one, otherwise the discovered Device of the group, otherwise None, and
\* leaves both maps as they were.
C29_Resolve ==
    dm_call.op = "get_device" =>
        LET g == dm_call.group
        IN  /\ dm_call.result =
                  IF g \in DOMAIN dm_call.devices THEN dm_call.devices[g]
                  ELSE IF g \in DOMAIN dm_call.discovered THEN dm_call.discovered[g]
                  ELSE None
            /\ dm_call.devices_after = dm_call.devices
            /\ dm_call.discovered_after = dm_call.discovered

\* the group is in both maps and the configured Device was returned
C29_Witness ==
    /\ dm_call.op = "get_device"
    /\ dm_call.group \in DOMAIN dm_call.devices \cap DOMAIN dm_call.discovered
    /\ dm_call.result = dm_call.devices[dm_call.group]
    /\ dm_call.result # dm_call.discovered[dm_call.group]

\* C30: for a device configuration that names an existing template a Device
\* is created, and each of its fields (device type, dimmable, fade time,
\* icon, device class, state class, unit, custom attributes) has the value
\* the configuration gives when it gives one and the template's otherwise.
C30_TemplateMerge ==
    dm_call.op = "create" =>
        LET config == dm_call.config
            template == Templates[Head(config["template"])]
            device == dm_call.result
            Merged(key, field) == IF key \in DOMAIN config THEN config[key]
                                  ELSE template[field]
        IN  /\ device.raised = ""
            /\ device.device_type = Merged("type", "device_type")
            /\ device.dimmable = Merged("dimmable", "dimmable")
            /\ device.fade_time = Merged("fade_time", "fade_time")
            /\ device.icon = Merged("icon", "icon")
            /\ device.device_class = Merged("device_class", "device_class")
            /\ device.state_class = Merged("state_class", "state_class")
            /\ device.unit_of_measurement =
                   Merged("unit_of_measurement", "unit_of_measurement")
            /\ device.custom_attributes =
                   Merged("custom_attributes", "custom_attributes")
\* C31: discover_device on a group with a configured device returns that
\* device and changes neither map; on a group without one it returns a light
\* that is dimmable and has the default name, stores it under the group in
\* discovered_devices only and leaves every other entry as it was; the
\* device carries the marks of a discovered one
C31_DiscoverFrame ==
    dm_call.op = "discover_device" =>
      /\ dm_call.devices_after = dm_call.devices
      /\ IF dm_call.group \in DOMAIN dm_call.devices
           THEN /\ dm_call.result = dm_call.devices[dm_call.group]
                /\ dm_call.discovered_after = dm_call.discovered
           ELSE /\ dm_call.result.group = dm_call.group
                /\ dm_call.result.device_type = "light"
                /\ dm_call.result.dimmable
                /\ dm_call.result.name = DefaultName(dm_call.group)
                /\ dm_call.result.area = <<"Discovered">>
                /\ dm_call.result.discovery_method \in {"fallback", "cbus_query"}
                /\ DOMAIN dm_call.discovered_after =
                     DOMAIN dm_call.discovered \cup {dm_call.group}
                /\ dm_call.discovered_after[dm_call.group] = dm_call.result
                /\ \A g \in DOMAIN dm_call.discovered \ {dm_call.group} :
                     dm_call.discovered_after[g] = dm_call.discovered[g]

\* a discovery of a group that is in neither map, next to a configured and a
\* discovered device
C31_Witness ==
    /\ dm_call.op = "discover_device"
    /\ dm_call.group \notin DOMAIN dm_call.devices \cup DOMAIN dm_call.discovered
    /\ dm_call.devices # <<>>
    /\ dm_call.discovered # <<>>
    /\ dm_call.group \in DOMAIN dm_call.discovered_after

\* C32: a configuration that lacks a required section or field or names an
\* invalid interface type ends start-up in the configuration error, and no
\* connection has been attempted or made: not by the device manager's
\* discovery, not by the interface, not by the MQTT bridge
C32_ConfigErrorsFatal ==
    LET c == config_data
    IN  (/\ c.loaded
         /\ \/ c.sections # {"cbus", "mqtt"}
            \/ "interface" \notin c.cbus
            \/ c.interface \notin {"tcp", "serial", "pci"}
            \/ c.interface = "tcp" /\ "host" \notin c.cbus
            \/ c.interface = "serial" /\ "serial_port" \notin c.cbus
            \/ "broker" \notin c.mqtt)
        => /\ boot_pc = "config_error"
           /\ c.error # ""
           /\ attempts = <<>>
           /\ ~connected /\ connection = Closed
           /\ ~mqtt_connected /\ mqtt_pc = "connect"
           /\ wire = <<>>

\* a configuration with both sections and a broker that names an invalid
\* interface type has been loaded
C32_Witness ==
    /\ config_data.loaded
    /\ config_data.sections = {"cbus", "mqtt"}
    /\ config_data.mqtt = {"broker"}
    /\ "interface" \in config_data.cbus
    /\ config_data.interface = "usb"
    /\ boot_pc = "config_error"

\* C38: after a connect that has raised the interface is not connected, and
\* an interface at rest is connected only with an open transport and the
\* whole initialisation sequence written
C38_ConnectedOnlyAfterInit ==
    /\ conn_last = "raised" => ~connected
    /\ (connected /\ conn_pc = "idle")
         => connection = Open /\ init_pos = Len(InitSequence)

\* C40: the lines on the transport begin with reset, select network, select
\* application and enable monitoring, in this order, and all four are
\* written before the command loop writes a command and before the
\* monitoring loop takes a line
C40_InitFirst ==
    /\ \A i \in 1..Len(wire) :
         i <= Len(InitSequence)
           => wire[i] = [cmd |-> InitSequence[i], by |-> "init", n |-> i]
    /\ (\/ \E i \in 1..Len(wire) : wire[i].by = "loop"
        \/ rx_count > Len(rx)
        \/ mon_pc # "read")
         => /\ Len(wire) >= Len(InitSequence)
            /\ wire[1].cmd.kind = "reset"
            /\ wire[2].cmd.kind = "network"
            /\ wire[3].cmd.kind = "application"
            /\ wire[4].cmd.kind = "monitor"

\* the command loop has written a hub command after the initialisation and
\* the monitoring loop has taken a line
C40_Witness ==
    /\ Len(wire) > Len(InitSequence)
    /\ wire[Len(wire)].by = "loop"
    /\ rx_count > Len(rx)
    /\ boot_pc = "started"

\* C33: the percentage sent for a brightness b in 0..255 is the whole
\* percent nearest to 100 * b / 255 (so 0, 26, 128, 191 and 255 give 0, 10,
\* 50, 75 and 100) and lies in 0..100
C33_NearestPercent ==
    (ha_call.op = "turn_on" /\ ha_call.topic = "ramp") =>
      LET b == ha_call.brightness
          p == ha_call.percent
      IN  /\ p \in 0..100
          /\ 2 * (MaxByte * p - 100 * b) <= MaxByte
          /\ 2 * (100 * b - MaxByte * p) <= MaxByte
          /\ b = 0 => p = 0
          /\ b = 26 => p = 10
          /\ b = 128 => p = 50
          /\ b = 191 => p = 75
          /\ b = MaxByte => p = 100

\* C34: the events applied to the state store are, in order and each once,
\* the lines the monitoring loop has taken from the transport, except the
\* one it is waiting to apply; the lines not yet taken follow in the order
\* of delivery, so no line is taken before the previous event is applied
\* and published
C34_AppliedOnceInOrder ==
    LET taken   == rx_count - Len(rx)
        waiting == IF mon_pc = "wait" THEN 1 ELSE 0
    IN  /\ Len(delivered) = rx_count
        /\ consumed = SubSeq(delivered, 1, taken - waiting)
        /\ rx = SubSeq(delivered, taken + 1, rx_count)
        /\ mon_pc = "wait" => mon_event = delivered[taken]
        /\ \A i, j \in 1..Len(consumed) :
             consumed[i].tag = consumed[j].tag => i = j

\* three lines of one group that change its level each time have been
\* delivered, taken and applied
C34_Witness ==
    /\ Len(consumed) = MaxLines
    /\ consumed[1].group = consumed[2].group
    /\ consumed[2].group = consumed[3].group
    /\ consumed[1].level # consumed[2].level
    /\ consumed[2].level # consumed[3].level

\* C35: pending_mqtt_update is false for every tracked device, the conflict
\* counter is 0 and the conflict check is never at its publish
C35_NeverPendingMqtt ==
    /\ \A g \in DOMAIN device_states : ~device_states[g].pending_mqtt_update
    /\ sync_conflicts = 0
    /\ sync_pc # "pub"
    /\ sync_pubs = <<>>

\* a run of the conflict check has ended over a table in which a hub command
\* has left pending_cbus_update set
C35_Witness ==
    /\ lastOp.op = "sync"
    /\ \E g \in DOMAIN lastOp.table : lastOp.table[g].pending_cbus_update
    /\ sync_conflicts = 0

\* C36 (as claimed): a poll pass that has ended has enqueued one query for
\* every group tracked when it started, has not been cut short by an
\* exception and has recorded last_poll_time, whatever changed the table
\* while the pass was suspended
C36_PassCoversStartGroups ==
    (poll_log.done /\ poll_log.polled) =>
        /\ ~poll_log.failed
        /\ Len(poll_log.sent) = Cardinality(DOMAIN poll_log.table)
        /\ \A g \in DOMAIN poll_log.table :
             \E i \in 1..Len(poll_log.sent) : poll_log.sent[i] = g
        /\ last_poll_time >= poll_log.at

\* C37: the optimistic update of a hub command never calls
\* publish_state_update and hands nothing to the MQTT client; a step that
\* enters publish_state_update is the update of a bus event that changed
\* the level or the on/off value of the entry
C37_NoEchoOfHubWrites ==
    [][/\ (lastOp'.op = "hub" /\ (hub_count' # hub_count \/ hub_pc' # hub_pc)) =>
            /\ ~lastOp'.pub
            /\ hub_pc' = "idle"
            /\ published' = published
            /\ pub_pc' = pub_pc
       /\ (mon_pc' = "pub" /\ mon_pc # "pub") =>
            /\ lastOp'.op = "bus"
            /\ \/ lastOp'.pre.level # lastOp'.level
               \/ lastOp'.pre.state # (lastOp'.level > 0)
       /\ hub_pc' # "pub"]_vars

\* with the MQTT client connected, a hub command has changed the level of a
\* tracked device and no state of that device has been published
C37_Witness ==
    /\ lastOp.op = "hub"
    /\ lastOp.tracked
    /\ lastOp.pre.level # lastOp.level
    /\ mqtt_connected /\ mqtt_pc = "done"
    /\ \A i \in 1..Len(published) :
         published[i].kind = "config" \/ published[i].group # lastOp.group

\* C39: the update of a bus event for a group that was not tracked creates
\* the entry with the reported level, its on/off value and source CBUS, and
\* enters publish_state_update iff the level is not 0; for level 0 nothing
\* is discovered, announced or published by the step
C39_FirstReportOfZeroIsSilent ==
    [][LET g == lastOp'.group
           applies == \/ mon_pc = "read" /\ Len(rx') < Len(rx) /\ mon_pc' # "wait"
                      \/ mon_pc = "wait" /\ mon_pc' # "wait"
       IN  (applies /\ lastOp'.op = "bus" /\ g \notin DOMAIN device_states) =>
             /\ g \in DOMAIN device_states'
             /\ device_states'[g].level = lastOp'.level
             /\ device_states'[g].state = (lastOp'.level > 0)
             /\ device_states'[g].last_source = CBUS
             /\ (mon_pc' = "pub") <=> (lastOp'.level # 0)
             /\ lastOp'.pub <=> (lastOp'.level # 0)
             /\ lastOp'.level = 0 =>
                  /\ published' = published
                  /\ discovered_devices' = discovered_devices
                  /\ pub_pc' = pub_pc
                  /\ dm_queue' = dm_queue]_vars

\* with the MQTT client connected, the first report of an untracked group
\* had level 0: the group is tracked, unknown to the device manager and
\* nothing about it has been published
C39_Witness ==
    /\ lastOp.op = "bus"
    /\ ~lastOp.tracked
    /\ lastOp.level = 0
    /\ mon_pc = "read"
    /\ mqtt_connected /\ mqtt_pc = "done"
    /\ lastOp.group \in DOMAIN device_states
    /\ lastOp.group \notin discovered_devices \cup ConfiguredGroups
    /\ \A i \in 1..Len(published) : published[i].group # lastOp.group

====
